---- MODULE Spec2Model ----
(***************************************************************************)
(* Notification cycle engine of gclick: circuit breaker, idempotency       *)
(* store and its file, the dispatch phase of run_notification_cycle, rate  *)
(* limiter, cache and retry decorators.                                    *)
(*                                                                         *)
(* Strings are sequences of one-character strings, dates are day numbers   *)
(* (strftime('%Y-%m-%d') is injective and order-preserving on dates with   *)
(* four-digit years), wall-clock time is a count of seconds.               *)
(***************************************************************************)
EXTENDS Integers, Sequences, FiniteSets, TLC

\* ------------------------------------------------------------------ bounds
MaxTime == 3              \* the clock runs from 0 to MaxTime seconds
MaxCount == 3             \* cap on the breaker's counters
MaxThreshold == 2         \* failure_threshold and success_threshold range over 1..MaxThreshold
MaxTimeout == 2           \* recovery_timeout_seconds ranges over 1..MaxTimeout
MaxHalfOpenCalls == 2     \* half_open_max_calls ranges over 1..MaxHalfOpenCalls
MaxDay == 8               \* the calendar runs from day 0 to day MaxDay
MaxMarks == 2             \* calls of marcar_envios_bem_sucedidos in one behaviour of the store
MaxBatch == 1             \* longest list given to one marcar_envios_bem_sucedidos call
MaxTasks == 2             \* longest list the task source returns
MaxFaults == 1            \* sends of one behaviour that do not complete with success
MaxRate == 1              \* requests_per_second ranges over 1..MaxRate
MaxBurst == 2             \* burst_capacity ranges over 1..MaxBurst
MaxCalls == 2             \* calls of the guarded run_notification_cycle in one behaviour
MaxWindow == 4            \* dias_proximos ranges over 0..MaxWindow
MaxColeta == 5            \* longest list the task source returns to a counted dry run
MaxRelevantes == 3        \* longest list given to one agrupar_por_responsavel call
MaxLookups == 2           \* max_responsaveis_lookup ranges over 0..MaxLookups there
MaxBucket == 2            \* longest bucket given to one aplicar_filtro_idempotencia call
MaxLimite == 2            \* limite_responsaveis_notificar ranges over 1..MaxLimite in ordered cycles
MaxWrites == 2            \* mark_sent_today calls of one writer of the state file
MaxProceed == 4           \* can_proceed calls on one RateLimiter
MaxCacheSize == 2         \* max_size of a cache ranges over 1..MaxCacheSize
MaxTtl == 1               \* default_ttl ranges over 1..MaxTtl, a ttl argument over 0..MaxTtl
MaxCards == 6             \* cards one cycle has to send
MaxAttempts == 3          \* max_attempts of a retry decorator ranges over 1..MaxAttempts
MaxDelay == 2             \* delay ranges over 1..MaxDelay seconds
MaxBackoff == 2           \* backoff_factor ranges over 1..MaxBackoff
MaxCacheOps == 3          \* get, set and invalidate calls on one cache
MaxWrapped == 3           \* calls of a function wrapped by resilient
MaxScan == 5              \* pages of a collection that are told apart
MaxPages == 3             \* max_pages of a collection
MaxLockTimeout == 2       \* timeout of a FileLock

\* ------------------------------------------------------- program constants
RetentionDays == 7        \* timedelta(days=7) in _cleanup_old_dates
max_concurrent == 5       \* safe_execute_batch_async(..., max_concurrent=5)
dias_proximos_padrao == 3             \* classificar_tarefa_individual(..., dias_proximos=3)
max_responsaveis_lookup == 100        \* agrupar_por_responsavel(..., max_responsaveis_lookup=100)
limite_responsaveis_notificar == 50   \* run_notification_cycle(..., limite_responsaveis_notificar=50)
repetir_no_mesmo_dia == FALSE         \* run_notification_cycle(..., repetir_no_mesmo_dia=False)

VARIABLES
    config,     \* CircuitBreakerConfig of the breaker
    breaker,    \* CircuitBreaker: state, failure_count, success_count, last_failure_time
    now,        \* time.time()
    obs,        \* what the caller of the breaker has observed (history)
    data,       \* NotificationStateStorage._data["sent_today"]: date -> list of keys
    file,       \* the "sent_today" object of storage/notification_state_v2.json
    today,      \* the current date (datetime.now(), obter_data_atual_brt())
    storeObs,   \* the last call made on the store and its argument (history)
    entry,          \* how cycles are started: "notify_once" or "function_app"
    execution_mode, \* 'dry_run' or 'live'
    tarefas,        \* the list the task source returns
    responsaveis,   \* task id -> the list listar_responsaveis_tarefa returns
    bot,            \* bot_sender is set and the responsibles have a conversation
    inv,            \* invocation -> where it is in run_notification_cycle
    lock,           \* the holder of storage/notification.lock, or "free"
    hist,           \* what the invocations have dispatched so far (history)
    has_resilience, \* the engine could import resilient and resilience_manager
    send,           \* the last call of _resilient_send_card and its outcome (history)
    limiter,        \* resilience_manager.rate_limiter: its config, tokens, last_update
    run,            \* the guarded call of run_notification_cycle: position and outcome
    cls,            \* a call of classificar: dias_proximos and what it returned
    grp,            \* a call of agrupar_por_responsavel: its ceiling and what it did
    flt,            \* a call of aplicar_filtro_idempotencia: arguments and result
    persist,        \* the processes that share the state file, and the file on disk
    lim,            \* what the callers of RateLimiter.can_proceed have observed (history)
    cache,          \* an IntelligentCache, the threads that call it, and what they observed
    fan,            \* the card sends of one cycle: dispatched, running, finished
    retry,          \* one call of a function wrapped by a retry decorator
    wrap,           \* the breakers of the resilience manager and the calls of a function wrapped by resilient
    scan,           \* one full-scan collection of _coletar_tarefas_intervalo
    flock           \* the lock file of a FileLock and the runs that use it

cbVars == <<config, breaker, now, obs>>
storeVars == <<data, file, today, storeObs>>
inputVars == <<entry, execution_mode, tarefas, responsaveis, bot>>
cycleVars == <<entry, execution_mode, tarefas, responsaveis, bot, inv, lock, hist>>
sendVars == <<has_resilience, send>>
runVars == <<limiter, run>>
lateVars == <<wrap, scan, flock>>
moreVars == <<persist, lim, cache, fan, retry, lateVars>>
auxVars == <<has_resilience, send, limiter, run, cls, grp, flt, moreVars>>
vars == <<config, breaker, now, obs, data, file, today, storeObs,
          entry, execution_mode, tarefas, responsaveis, bot, inv, lock, hist,
          has_resilience, send, limiter, run, cls, grp, flt, persist, lim, cache, fan, retry,
          wrap, scan, flock>>

Min(a, b) == IF a <= b THEN a ELSE b
Max(a, b) == IF a >= b THEN a ELSE b

\* ========================================================= circuit breaker
CLOSED == "closed"
OPEN == "open"
HALF_OPEN == "half_open"
CircuitState == {CLOSED, OPEN, HALF_OPEN}

NoTime == 0 - 1

CircuitBreakerConfig ==
    [failure_threshold : 1..MaxThreshold,
     recovery_timeout_seconds : 1..MaxTimeout,
     half_open_max_calls : 1..MaxHalfOpenCalls,
     success_threshold : 1..MaxThreshold]

\* CircuitBreaker.__init__
CircuitBreaker_init ==
    [state |-> CLOSED, failure_count |-> 0, success_count |-> 0, last_failure_time |-> 0]

\* mutant of can_execute: the recovery test uses > instead of >=
can_execute_StrictTimeout(b, cfg, t) ==
    IF b.state = CLOSED THEN [b |-> b, ret |-> TRUE]
    ELSE IF b.state = OPEN
         THEN IF t - b.last_failure_time > cfg.recovery_timeout_seconds
              THEN [b |-> [b EXCEPT !.state = HALF_OPEN], ret |-> TRUE]
              ELSE [b |-> b, ret |-> FALSE]
         ELSE [b |-> b, ret |-> TRUE]

\* CircuitBreaker.can_execute: the breaker after the call and the value returned
can_execute(b, cfg, t) ==
    IF b.state = CLOSED THEN [b |-> b, ret |-> TRUE]
    ELSE IF b.state = OPEN
         THEN IF t - b.last_failure_time >= cfg.recovery_timeout_seconds
              THEN [b |-> [b EXCEPT !.state = HALF_OPEN], ret |-> TRUE]
              ELSE [b |-> b, ret |-> FALSE]
         ELSE [b |-> b, ret |-> TRUE]

\* mutant of on_success: closing the breaker leaves failure_count as it is
on_success_SemZerar(b, cfg) ==
    IF b.state = HALF_OPEN
    THEN LET sc == b.success_count + 1 IN
         IF sc >= cfg.success_threshold
         THEN [b EXCEPT !.success_count = sc, !.state = CLOSED]
         ELSE [b EXCEPT !.success_count = sc]
    ELSE IF b.state = CLOSED
         THEN [b EXCEPT !.failure_count = Max(0, b.failure_count - 1)]
         ELSE b

\* CircuitBreaker.on_success
on_success(b, cfg) ==
    IF b.state = HALF_OPEN
    THEN LET sc == b.success_count + 1 IN
         IF sc >= cfg.success_threshold
         THEN [b EXCEPT !.success_count = sc, !.state = CLOSED, !.failure_count = 0]
         ELSE [b EXCEPT !.success_count = sc]
    ELSE IF b.state = CLOSED
         THEN [b EXCEPT !.failure_count = Max(0, b.failure_count - 1)]
         ELSE b

\* mutant of on_failure: the threshold test uses > instead of >=
on_failure_StrictThreshold(b, cfg, t) ==
    LET fc == b.failure_count + 1 IN
    IF fc > cfg.failure_threshold
    THEN [b EXCEPT !.last_failure_time = t, !.failure_count = fc, !.state = OPEN]
    ELSE [b EXCEPT !.last_failure_time = t, !.failure_count = fc]

\* mutant of on_failure: only a closed breaker is tripped
on_failure_ClosedOnly(b, cfg, t) ==
    LET fc == b.failure_count + 1 IN
    IF b.state = CLOSED /\ fc >= cfg.failure_threshold
    THEN [b EXCEPT !.last_failure_time = t, !.failure_count = fc, !.state = OPEN]
    ELSE [b EXCEPT !.last_failure_time = t, !.failure_count = fc]

\* CircuitBreaker.on_failure
on_failure(b, cfg, t) ==
    LET fc == b.failure_count + 1 IN
    IF fc >= cfg.failure_threshold
    THEN [b EXCEPT !.last_failure_time = t, !.failure_count = fc, !.state = OPEN]
    ELSE [b EXCEPT !.last_failure_time = t, !.failure_count = fc]

\* ======================================================= idempotency store
Aliases == {<<"a">>, <<"b">>}
TaskIds == {<<"1">>, <<"2">>}

Range(s) == {s[i] : i \in DOMAIN s}

\* strftime('%Y-%m-%d'): a date prints as one zero-padded token, so that the
\* order of the strings is the order of the dates
DateTokens ==
    <<"D00", "D01", "D02", "D03", "D04", "D05", "D06", "D07",
      "D08", "D09", "D10", "D11", "D12", "D13", "D14", "D15">>

strftime(d) == DateTokens[d + 1]

\* the day number a date token stands for
DayOf(tok) == CHOOSE d \in 0..(Len(DateTokens) - 1) : DateTokens[d + 1] = tok

\* criar_chave_idempotencia: f"{data:%Y-%m-%d}|{responsavel}|{tarefa_id}"
criar_chave_idempotencia(tarefa_id, responsavel, d) ==
    <<strftime(d), "|">> \o responsavel \o <<"|">> \o tarefa_id

\* chave.split("|", 1)[0]: the text before the first "|" (all of it if none)
RECURSIVE split_first(_)
split_first(s) ==
    IF s = <<>> \/ Head(s) = "|" THEN <<>> ELSE <<Head(s)>> \o split_first(Tail(s))

\* data < cutoff_str, where cutoff_str is the '%Y-%m-%d' print of day cutoff
date_str_less(x, cutoff) == x # <<>> /\ DayOf(x[1]) < cutoff

\* NotificationStateStorage.get_sent_today
get_sent_today(d, chave) ==
    LET dia == split_first(chave) IN
    dia \in DOMAIN d /\ chave \in Range(d[dia])

\* every key the map holds
KeysIn(d) == UNION {Range(d[x]) : x \in DOMAIN d}

\* mutant of cleanup_old_dates: the date 7 days before today goes as well
cleanup_LimiteInclusivo(d, hoje) ==
    LET cutoff == hoje - RetentionDays + 1
        dates_to_remove == {x \in DOMAIN d : date_str_less(x, cutoff)}
    IN [x \in DOMAIN d \ dates_to_remove |-> d[x]]

\* the legacy purge_older_than(days) over the "entries" list of
\* storage/notification_state.json: a key stays when its date is at most days
\* before today, or when its date cannot be read
purge_older_than(entries, hoje, days) ==
    SelectSeq(entries, LAMBDA k :
        LET d_str == split_first(k) IN
        IF d_str = <<>> \/ ~(\E i \in DOMAIN DateTokens : DateTokens[i] = d_str[1])
        THEN TRUE
        ELSE hoje - DayOf(d_str[1]) <= days)

\* NotificationStateStorage._cleanup_old_dates: drops the dates before
\* now - 7 days
cleanup_old_dates(d, hoje) ==
    LET cutoff == hoje - RetentionDays
        dates_to_remove == {x \in DOMAIN d : date_str_less(x, cutoff)}
    IN [x \in DOMAIN d \ dates_to_remove |-> d[x]]

\* NotificationStateStorage.mark_sent_today: the in-memory map after the call
\* (the append, then _cleanup_old_dates); _save_state then dumps it to the file
mark_sent_today(d, chave, hoje) ==
    LET dia == split_first(chave)
        d1 == IF dia \in DOMAIN d THEN d ELSE d @@ (dia :> <<>>)
        d2 == IF chave \in Range(d1[dia]) THEN d1
              ELSE [d1 EXCEPT ![dia] = Append(@, chave)]
    IN cleanup_old_dates(d2, hoje)

\* mutant of marcar_envios_bem_sucedidos: the success flag is not tested
RECURSIVE marcar_envios_IgnoraSucesso(_, _, _)
marcar_envios_IgnoraSucesso(envios_realizados, d, hoje) ==
    IF envios_realizados = <<>> THEN d
    ELSE marcar_envios_IgnoraSucesso(Tail(envios_realizados),
             mark_sent_today(d, Head(envios_realizados)[1], hoje), hoje)

\* marcar_envios_bem_sucedidos: the in-memory map after the call
RECURSIVE marcar_envios_bem_sucedidos(_, _, _)
marcar_envios_bem_sucedidos(envios_realizados, d, hoje) ==
    IF envios_realizados = <<>> THEN d
    ELSE LET chave == Head(envios_realizados)[1]
             sucesso == Head(envios_realizados)[2]
         IN marcar_envios_bem_sucedidos(Tail(envios_realizados),
                IF sucesso THEN mark_sent_today(d, chave, hoje) ELSE d, hoje)

\* NotificationStateStorage._save_state after a marcar_envios_bem_sucedidos
\* call: the file is rewritten by every mark_sent_today, so it changes only if
\* some entry of the list succeeded
save_state(f, envios_realizados, d) ==
    IF \E i \in DOMAIN envios_realizados : envios_realizados[i][2] THEN d ELSE f

\* the keys the engine builds on a given day: the key's date is the day of
\* the cycle
KeysOn(hoje) ==
    {criar_chave_idempotencia(t, a, hoje) : t \in TaskIds, a \in Aliases}

AllKeys ==
    {criar_chave_idempotencia(t, a, d) : t \in TaskIds, a \in Aliases, d \in 0..MaxDay}

\* NotificationStateStorage.__init__ with no state file: _load_state's default
StoreStart ==
    /\ data = <<>>
    /\ file = <<>>
    /\ storeObs = [op |-> "init", envios |-> <<>>, marks |-> 0, purged |-> {}]


\* =================================================== preparation of a cycle
\* A task of the task source: its id, its status letter and its due date.
STATUS_ABERTOS == {"A", "P", "Q", "S"}

\* a task of the source; dataVencimento is text: the ISO print of its due date
Tarefa(id, status, venc) ==
    [id |-> id, status |-> status, dataVencimento |-> strftime(venc)]

\* dataVencimento of a task that has none, and of one whose text is no date
SemData == ""
DataInvalida == "??"

\* the parse of a due date raised
ParseError == 0 - 1

\* datetime.strptime(dv, "%Y-%m-%d").date(): the day, or ParseError when the
\* text is not a date
strptime(dv) ==
    IF \E d \in DOMAIN DateTokens : DateTokens[d] = dv THEN DayOf(dv) ELSE ParseError

\* date.fromisoformat(dt_txt): the day, or ParseError when the text is not a date
fromisoformat(dt_txt) ==
    IF \E d \in DOMAIN DateTokens : DateTokens[d] = dt_txt THEN DayOf(dt_txt)
    ELSE ParseError

\* the tasks the source can return on a given day: one due today, one a day
\* overdue, a concluded one, and one overdue for two days
TaskPool(hoje) ==
    { Tarefa(<<"1">>, "A", hoje), Tarefa(<<"2">>, "A", hoje - 1),
      Tarefa(<<"2">>, "C", hoje), Tarefa(<<"1">>, "A", hoje - 2) }

\* the lists listar_responsaveis_tarefa can return for a task
RespLists == {<<<<"a">>>>, <<<<"a">>, <<"a">>>>, <<<<"a">>, <<"b">>>>}

NONE == "None"
BucketNames == <<"vencidas", "vence_hoje", "vence_em_3_dias">>

\* mutant of classificar_tarefa_individual: two days of delay still count
classificar_tarefa_DoisDias(tarefa, hoje, dias) ==
    LET dv == tarefa.dataVencimento
        dt == strptime(dv)
    IN
    IF dv = SemData \/ dt = ParseError THEN NONE
    ELSE IF dt < hoje - 2 THEN NONE
    ELSE IF dt < hoje THEN "vencidas"
    ELSE IF dt = hoje THEN "vence_hoje"
    ELSE IF dt <= hoje + dias THEN "vence_em_3_dias"
    ELSE NONE

\* classification.classificar_tarefa_individual
classificar_tarefa_individual(tarefa, hoje, dias) ==
    LET dv == tarefa.dataVencimento
        dt == strptime(dv)
    IN
    IF dv = SemData \/ dt = ParseError THEN NONE
    ELSE IF dt < hoje - 1 THEN NONE
    ELSE IF dt < hoje THEN "vencidas"
    ELSE IF dt = hoje THEN "vence_hoje"
    ELSE IF dt <= hoje + dias THEN "vence_em_3_dias"
    ELSE NONE

\* notification_engine.classificar. With classification.py at hand
\* (standard = TRUE, the engine of shared_code) the standard classification is
\* asked with its default window, and a task of the upcoming bucket is kept
\* only inside the window of the cycle; without it (the engine of src/engine,
\* whose classification.py has no classificar_tarefa_individual) the internal
\* rule is applied with the window of the cycle.
classificar(tarefa, hoje, dias, standard) ==
    IF standard
    THEN LET resultado == classificar_tarefa_individual(tarefa, hoje, dias_proximos_padrao) IN
         IF resultado = "vence_em_3_dias"
         THEN LET dt_txt == tarefa.dataVencimento
                  dt_venc == fromisoformat(dt_txt)
              IN IF dt_txt # SemData /\ dt_venc # ParseError /\ dt_venc <= hoje + dias
                 THEN "vence_em_3_dias" ELSE NONE
         ELSE resultado
    ELSE LET dt_txt == tarefa.dataVencimento
             dt_venc == fromisoformat(dt_txt)
         IN
         IF dt_txt = SemData \/ dt_venc = ParseError THEN NONE
         ELSE IF dt_venc < hoje - 1 THEN NONE
         ELSE IF dt_venc < hoje THEN "vencidas"
         ELSE IF dt_venc = hoje THEN "vence_hoje"
         ELSE IF dt_venc <= hoje + dias THEN "vence_em_3_dias"
         ELSE NONE

\* classification.separar_tarefas_overdue(...)["normais"]
separar_normais(ts, hoje) ==
    SelectSeq(ts, LAMBDA t :
        LET dv == t.dataVencimento
            dt == strptime(dv)
        IN dv = SemData \/ dt = ParseError \/ ~(dt < hoje - 1))

\* the tasks of one bucket, in the order of the list
Bucket(ts, nome, hoje, dias, standard) ==
    SelectSeq(ts, LAMBDA t : classificar(t, hoje, dias, standard) = nome)

\* buckets_globais, then relevantes: the three buckets one after the other
relevantes(ts, hoje, dias, standard) ==
    Bucket(ts, "vencidas", hoje, dias, standard)
        \o Bucket(ts, "vence_hoje", hoje, dias, standard)
        \o Bucket(ts, "vence_em_3_dias", hoje, dias, standard)

\* grupos[apelido].append(t): grupos is a dict, kept as the list of its
\* entries in insertion order
AppendTo(grupos, apelido, t) ==
    IF \E i \in DOMAIN grupos : grupos[i].apelido = apelido
    THEN [i \in DOMAIN grupos |->
            IF grupos[i].apelido = apelido
            THEN [grupos[i] EXCEPT !.tarefas = Append(@, t)] ELSE grupos[i]]
    ELSE Append(grupos, [apelido |-> apelido, tarefas |-> <<t>>])

RECURSIVE AppendAll(_, _, _)
AppendAll(grupos, resp_list, t) ==
    IF resp_list = <<>> THEN grupos
    ELSE AppendAll(AppendTo(grupos, Head(resp_list), t), Tail(resp_list), t)

\* what resp holds for a task whose listar_responsaveis_tarefa call raises
LookupFails == <<<<"!">>>>

\* agrupar_por_responsavel: every responsible of every relevant task gets the
\* task, until max tasks have been looked up; consultados is advanced after
\* the lookup has returned, and a lookup that raises is only logged
RECURSIVE agrupar_por_responsavel(_, _, _, _, _)
agrupar_por_responsavel(tarefas_relevantes, resp, max, consultados, grupos) ==
    IF tarefas_relevantes = <<>> \/ consultados >= max THEN grupos
    ELSE LET t == Head(tarefas_relevantes) IN
         IF resp[t.id] = LookupFails
         THEN agrupar_por_responsavel(Tail(tarefas_relevantes), resp, max, consultados,
                                      grupos)
         ELSE agrupar_por_responsavel(Tail(tarefas_relevantes), resp, max, consultados + 1,
                                      AppendAll(grupos, resp[t.id], t))

\* the listar_responsaveis_tarefa calls the same loop makes
RECURSIVE chamadas_listar(_, _, _, _)
chamadas_listar(tarefas_relevantes, resp, max, consultados) ==
    IF tarefas_relevantes = <<>> \/ consultados >= max THEN 0
    ELSE LET t == Head(tarefas_relevantes) IN
         1 + chamadas_listar(Tail(tarefas_relevantes), resp, max,
                             IF resp[t.id] = LookupFails THEN consultados
                             ELSE consultados + 1)

\* mutant of InsertSorted: smaller totals first
RECURSIVE InsertSorted_Crescente(_, _)
InsertSorted_Crescente(sorted, g) ==
    IF sorted = <<>> THEN <<g>>
    ELSE IF Len(Head(sorted).tarefas) <= Len(g.tarefas)
         THEN <<Head(sorted)>> \o InsertSorted_Crescente(Tail(sorted), g)
         ELSE <<g>> \o sorted

\* sorted(..., key=total, reverse=True): a stable sort, larger totals first
RECURSIVE InsertSorted(_, _)
InsertSorted(sorted, g) ==
    IF sorted = <<>> THEN <<g>>
    ELSE IF Len(Head(sorted).tarefas) >= Len(g.tarefas)
         THEN <<Head(sorted)>> \o InsertSorted(Tail(sorted), g)
         ELSE <<g>> \o sorted

RECURSIVE SortByTotal(_, _)
SortByTotal(grupos, sorted) ==
    IF grupos = <<>> THEN sorted
    ELSE SortByTotal(Tail(grupos), InsertSorted(sorted, Head(grupos)))

\* responsaveis_ordenados: the groups with their tasks in bucket order, sorted
\* and cut at limite_responsaveis_notificar
responsaveis_ordenados(grupos, hoje, dias, standard, limite) ==
    LET bkt == [i \in DOMAIN grupos |->
                  [apelido |-> grupos[i].apelido,
                   tarefas |-> relevantes(grupos[i].tarefas, hoje, dias, standard)]]
        ord == SortByTotal(bkt, <<>>)
    IN SubSeq(ord, 1, Min(Len(ord), limite))

\* mutant of aplicar_filtro_idempotencia: nothing is filtered out
aplicar_filtro_SemFiltro(lista_tarefas, apelido, hoje, d) ==
    [i \in DOMAIN lista_tarefas |->
        <<lista_tarefas[i],
          criar_chave_idempotencia(lista_tarefas[i].id, apelido, hoje)>>]

\* aplicar_filtro_idempotencia: the (task, key) pairs of the tasks whose key
\* the store does not hold
aplicar_filtro_idempotencia(lista_tarefas, apelido, hoje, d) ==
    LET pares == [i \in DOMAIN lista_tarefas |->
                    <<lista_tarefas[i],
                      criar_chave_idempotencia(lista_tarefas[i].id, apelido, hoje)>>]
    IN SelectSeq(pares, LAMBDA p : ~get_sent_today(d, p[2]))

\* mutant of buckets_filtrados: a bucket left without a task is kept
RECURSIVE buckets_ComVazios(_, _, _, _)
buckets_ComVazios(buckets_originais, apelido, hoje, d) ==
    IF buckets_originais = <<>> THEN <<>>
    ELSE LET b == Head(buckets_originais)
             tarefas_nao_enviadas == aplicar_filtro_idempotencia(b.tarefas, apelido, hoje, d)
         IN <<[nome |-> b.nome, itens |-> tarefas_nao_enviadas]>>
            \o buckets_ComVazios(Tail(buckets_originais), apelido, hoje, d)

\* aplicar_filtro_idempotencia over the dict of buckets, kept as the list of
\* its entries in insertion order: every bucket is filtered, and only a
\* bucket with something left gets an entry in buckets_filtrados
RECURSIVE buckets_filtrados(_, _, _, _)
buckets_filtrados(buckets_originais, apelido, hoje, d) ==
    IF buckets_originais = <<>> THEN <<>>
    ELSE LET b == Head(buckets_originais)
             tarefas_nao_enviadas == aplicar_filtro_idempotencia(b.tarefas, apelido, hoje, d)
         IN (IF tarefas_nao_enviadas # <<>>
             THEN <<[nome |-> b.nome, itens |-> tarefas_nao_enviadas]>> ELSE <<>>)
            \o buckets_filtrados(Tail(buckets_originais), apelido, hoje, d)

\* mensagens_enviadas: for every selected responsible with something left
\* after the filter, the responsible and the (task, key) pairs to send
RECURSIVE mensagens(_, _, _)
mensagens(ordenados, hoje, d) ==
    IF ordenados = <<>> THEN <<>>
    ELSE LET g == Head(ordenados)
             itens == IF repetir_no_mesmo_dia
                      THEN aplicar_filtro_SemFiltro(g.tarefas, g.apelido, hoje, d)
                      ELSE aplicar_filtro_idempotencia(g.tarefas, g.apelido, hoje, d)
         IN (IF itens = <<>> THEN <<>>
             ELSE <<[apelido |-> g.apelido, itens |-> itens]>>)
            \o mensagens(Tail(ordenados), hoje, d)

\* steps 2 and 3 of run_notification_cycle: the open tasks, without the long
\* overdue ones when classification.py is at hand
tarefas_para_notificacao(ts, hoje, standard) ==
    LET abertas == SelectSeq(ts, LAMBDA t : t.status \in STATUS_ABERTOS) IN
    IF standard THEN separar_normais(abertas, hoje) ELSE abertas

\* mutant of counts_final: the tasks are counted whatever their status
counts_SemFiltroStatus(ts, hoje, dias, standard, selecionados) ==
    [vencidas |-> Len(Bucket(ts, "vencidas", hoje, dias, standard)),
     vence_hoje |-> Len(Bucket(ts, "vence_hoje", hoje, dias, standard)),
     vence_em_3_dias |-> Len(Bucket(ts, "vence_em_3_dias", hoje, dias, standard)),
     responsaveis_selecionados |-> selecionados]

\* counts_final: the sizes of the three lists of buckets_globais and the
\* number of responsibles with a message
counts_final(ts, hoje, dias, standard, selecionados) ==
    LET para == tarefas_para_notificacao(ts, hoje, standard) IN
    [vencidas |-> Len(Bucket(para, "vencidas", hoje, dias, standard)),
     vence_hoje |-> Len(Bucket(para, "vence_hoje", hoje, dias, standard)),
     vence_em_3_dias |-> Len(Bucket(para, "vence_em_3_dias", hoje, dias, standard)),
     responsaveis_selecionados |-> selecionados]

\* mutant of preparar_limite: the responsibles are cut at limite after the
\* filter has dropped those with nothing left to send
preparar_FiltroAntes(ts, resp, hoje, d, standard, limite) ==
    LET abertas == SelectSeq(ts, LAMBDA t : t.status \in STATUS_ABERTOS)
        normais == IF standard THEN separar_normais(abertas, hoje) ELSE abertas
        rel == relevantes(normais, hoje, dias_proximos_padrao, standard)
        grupos == agrupar_por_responsavel(rel, resp, max_responsaveis_lookup, 0, <<>>)
        todas == mensagens(responsaveis_ordenados(grupos, hoje, dias_proximos_padrao,
                                                  standard, Len(grupos)),
                           hoje, d)
    IN SubSeq(todas, 1, Min(Len(todas), limite))

\* steps 1 to 6 of run_notification_cycle: collect, keep the open tasks, drop
\* the long overdue ones (HAS_ADVANCED_FEATURES, which needs classification.py),
\* classify, group, order, filter against the store
preparar_limite(ts, resp, hoje, d, standard, limite) ==
    LET abertas == SelectSeq(ts, LAMBDA t : t.status \in STATUS_ABERTOS)
        normais == IF standard THEN separar_normais(abertas, hoje) ELSE abertas
        rel == relevantes(normais, hoje, dias_proximos_padrao, standard)
        grupos == agrupar_por_responsavel(rel, resp, max_responsaveis_lookup, 0, <<>>)
    IN mensagens(responsaveis_ordenados(grupos, hoje, dias_proximos_padrao, standard,
                                        limite),
                 hoje, d)

\* the same with the default of limite_responsaveis_notificar
preparar(ts, resp, hoje, d, standard) ==
    preparar_limite(ts, resp, hoje, d, standard, limite_responsaveis_notificar)

\* ------------------------------------------------------ cycle invocations
Invocations == {"run1", "run2"}

\* the invocations are named in the order in which they begin
Earlier(i) == IF i = "run2" THEN {"run1"} ELSE {}

\* an invocation before run_notification_cycle is entered
InvIdle == [pc |-> "idle", msgs |-> <<>>, ri |-> 1, ci |-> 1, envios |-> <<>>]

\* History kept beside the invocations:
\*   attempts[i]    the keys invocation i has handed to a sender, in order
\*   deliveredBy[i] the keys whose send by i completed and reported success
\*   seen[i]        the keys delivered by the cycles that had ended when i began
\*   scheduled      the sends that were scheduled on the event loop, not awaited
\*   redispatched   the keys handed to a sender after they had been delivered
\*   faults         the sends that did not complete with success
HistInit ==
    [attempts |-> [i \in Invocations |-> <<>>],
     deliveredBy |-> [i \in Invocations |-> {}],
     seen |-> [i \in Invocations |-> {}],
     scheduled |-> {},
     redispatched |-> {},
     faults |-> 0]

\* no cycle is ever started
CycleStart ==
    /\ entry = "notify_once"
    /\ execution_mode = "live"
    /\ tarefas = <<>>
    /\ responsaveis = [t \in TaskIds |-> <<<<"a">>>>]
    /\ bot = FALSE
    /\ inv = [i \in Invocations |-> InvIdle]
    /\ lock = "free"
    /\ hist = HistInit

\* ------------------------------------------------------- resilient sends
\* History kept beside the sends of _resilient_send_card:
\*   op        "send" when the card went to BotSender.send_card, "refused"
\*             when the wrapper raised before calling it
\*   outcome   how the send ended
\*   recorded  what the wrapper reported to the teams_bot breaker for the call
\*   consec    the failed sends in a row
SendInit == [op |-> "init", outcome |-> "none", recorded |-> "none", consec |-> 0]

\* RateLimitConfig: requests per second and burst capacity (RATE_LIMIT_RPS,
\* RATE_LIMIT_BURST)
RateLimitConfig == [requests_per_second : 1..MaxRate, burst_capacity : 1..MaxBurst]

\* RateLimiter.__init__: the bucket starts full
RateLimiter_init(cfg, t) ==
    [config |-> cfg, tokens |-> cfg.burst_capacity, last_update |-> t]

\* mutant of can_proceed: a second that passes always brings a token
can_proceed_RefilMinimo(l, t) ==
    LET elapsed == t - l.last_update
        tokens == Min(l.config.burst_capacity,
                      l.tokens + elapsed * Max(1, l.config.requests_per_second))
    IN IF tokens >= 1
       THEN [l |-> [l EXCEPT !.tokens = tokens - 1, !.last_update = t], ret |-> TRUE]
       ELSE [l |-> [l EXCEPT !.tokens = tokens, !.last_update = t], ret |-> FALSE]

\* RateLimiter.can_proceed: refill by the elapsed time, then take one token
\* when there is one
can_proceed(l, t) ==
    LET elapsed == t - l.last_update
        tokens == Min(l.config.burst_capacity,
                      l.tokens + elapsed * l.config.requests_per_second)
    IN IF tokens >= 1
       THEN [l |-> [l EXCEPT !.tokens = tokens - 1, !.last_update = t], ret |-> TRUE]
       ELSE [l |-> [l EXCEPT !.tokens = tokens, !.last_update = t], ret |-> FALSE]

\* ResilienceManager.can_execute(service, check_rate_limit): the limiter
\* first, the breaker of the service only when the limiter lets the call pass
ResilienceManager_can_execute(l, b, cfg, t, check_rate_limit) ==
    LET p == IF check_rate_limit THEN can_proceed(l, t) ELSE [l |-> l, ret |-> TRUE] IN
    IF ~p.ret THEN [l |-> p.l, b |-> b, ret |-> FALSE]
    ELSE LET r == can_execute(b, cfg, t) IN [l |-> p.l, b |-> r.b, ret |-> r.ret]

\* The guarded call of run_notification_cycle:
\*   pc         "idle", "collect", "dispatch", "metrics"
\*   calls      the calls started so far
\*   verbose    the verbose argument of the cycle
\*   selected   the responsibles of mensagens_enviadas, in dispatch order
\*   next       the index in selected of the responsible dispatched next
\*   outcomes   what happened for the responsibles dispatched so far
\*   metrics    write_notification_cycle has been called
\*   counts     counts_final of the result dictionary
\*   limite     the limite_responsaveis_notificar argument of the cycle
\*   dispatched the responsible and the bucket of every task handed to a
\*              sender by the call, in order
\*   alerta     ALERT_ZERO_ABERTOS_TO_TEAMS
\*   modes      the execution_mode of the calls started so far, in order
\*   notifier   the kinds of message the call has handed to the notifier:
\*              "resumo_global", "responsavel", "zero_abertos"
\*   result     "none", "returned" (the result dictionary) or "raised"
\*   cause      for a raise: "resilience", "collection" or "dispatch"
RunInit(verbose) ==
    [pc |-> "idle", calls |-> 0, verbose |-> verbose, selected |-> <<>>, next |-> 1,
     outcomes |-> <<>>, metrics |-> FALSE, result |-> "none", cause |-> "none",
     counts |-> [vencidas |-> 0, vence_hoje |-> 0, vence_em_3_dias |-> 0,
                 responsaveis_selecionados |-> 0],
     alerta |-> FALSE, modes |-> <<>>, notifier |-> {},
     limite |-> limite_responsaveis_notificar, dispatched |-> <<>>]

\* agrupar_por_responsavel before it is called with the ceiling max
GrpInit(max) == [op |-> "init", max |-> max, chamadas |-> 0, grupos |-> <<>>]

\* aplicar_filtro_idempotencia before it is called
FltInit(buckets, apelido) ==
    [op |-> "init", buckets_originais |-> buckets, apelido |-> apelido,
     buckets_filtrados |-> <<>>]

GrpStart ==
    /\ grp = GrpInit(max_responsaveis_lookup)
    /\ flt = FltInit(<<>>, <<"a">>)

\* the processes that write storage/notification_state_v2.json
Writers == {"w1", "w2"}

\* The state file and its writers:
\*   pc      per process: "down" (not running: not started, killed, or
\*           ended by an exception), "idle" (running, the file loaded) or "writing" (inside _save_state, after the open that
\*           truncates the file)
\*   mem     per process: NotificationStateStorage._data["sent_today"]
\*   writes  per process: the mark_sent_today calls made so far
\*   kind    the file on disk: "missing", "valid" (a complete JSON
\*           document), "invalid" (not a JSON document, as after an open(...,
\*           'w') whose dump was not completed) or "unreadable" (open fails)
\*   content the sent_today map of a valid file
\*   meta    a valid file has a "metadata" section
\*   hasMeta per process: _data has the key "metadata"
\*   key     per process: the argument of its last mark_sent_today
\*   returned   per process: the keys whose mark_sent_today has returned
\*           since the process loaded the file
\*   persisted  the keys a completed _save_state has put in the file
\*   op, who, seen   the last step, its process, and what its _load_state
\*           returned
PersistInit ==
    [pc |-> [w \in Writers |-> "down"], mem |-> [w \in Writers |-> <<>>],
     writes |-> [w \in Writers |-> 0], kind |-> "missing", content |-> <<>>,
     meta |-> TRUE, hasMeta |-> [w \in Writers |-> TRUE],
     key |-> [w \in Writers |-> <<>>], returned |-> [w \in Writers |-> {}],
     persisted |-> {}, op |-> "init", who |-> "w1", seen |-> <<>>]

\* can_proceed has not been called: calls made, calls granted, and the
\* result of the last one
LimInit == [op |-> "init", calls |-> 0, granted |-> 0, ret |-> FALSE]

\* the threads that share one cache
Threads == {"t1", "t2"}

\* ttl=None
NoTtl == 0 - 1

\* no call in progress
NoArg == [op |-> "get", key |-> "a", ttl |-> NoTtl, mode |-> "key"]

\* IntelligentCache.__init__ and its callers:
\*   max_size, default_ttl   the arguments of the constructor
\*   entries   _cache, in the order the dictionary iterates: a sequence of
\*             CacheEntry records with their key
\*   lock      _lock: "free" or the thread that holds it
\*   pc, arg   per thread: "idle", "wait" (at the with self._lock of the
\*             method it called), or inside the method ("get", "set" up to
\*             _evict_lru, "store" for the rest of set, "invalidate"), and
\*             the method and arguments of the call
\*   asked     per key, the time-to-live its last set asked for: the ttl
\*             argument, or default_ttl when the call gave none
\*   ops       the calls made so far
\*   last      the last step and what it returned (for the first part of
\*             set: the key _evict_lru removed)
CacheInit(max_size, default_ttl) ==
    [max_size |-> max_size, default_ttl |-> default_ttl, entries |-> <<>>,
     lock |-> "free", pc |-> [t \in Threads |-> "idle"],
     arg |-> [t \in Threads |-> NoArg],
     asked |-> <<>>, ops |-> 0,
     last |-> [op |-> "init", ret |-> NONE]]

\* One call of the wrapper of retry_on_failure ("sync") or of
\* async_retry_on_failure ("async"):
\*   max_attempts, delay, backoff_factor   the arguments of the decorator
\*   pc        "loop", "returned" or "raised"
\*   attempt, current_delay   the variables of the wrapper
\*   outs      what each call of the wrapped function did: "ok", "error"
\*             (an exception of the tuple exceptions) or "other"
\*   waits     the sleeps made, in order
\*   result    the call whose value the wrapper returned, 0 when none
\*   raised    the call whose exception the wrapper raised, 0 when none
RetryInit(kind, max_attempts, delay, backoff_factor) ==
    [kind |-> kind, max_attempts |-> max_attempts, delay |-> delay,
     backoff_factor |-> backoff_factor, pc |-> "loop", attempt |-> 0,
     current_delay |-> delay, outs |-> <<>>, waits |-> <<>>,
     result |-> 0, raised |-> 0]

\* The card sends of one cycle:
\*   loop_running  the cycle was called on a thread whose event loop runs
\*   cards     the cards mensagens_enviadas asks for
\*   pc        "cycle" while run_notification_cycle runs, "returned" after
\*   created   tasks created on the loop whose coroutine has not started
\*   sending   coroutines _resilient_send_card started and not finished
\*   done      coroutines finished
FanInit(loop_running, cards) ==
    [loop_running |-> loop_running, cards |-> cards, pc |-> "cycle",
     created |-> 0, sending |-> 0, done |-> 0]

\* The resilience manager as a function wrapped by resilient sees it, and the
\* calls of that function:
\*   circuit_breakers  service -> its CircuitBreaker
\*   calls       the calls of the wrapper so far
\*   invoked     how many times the wrapped function itself was run
\*   successes, failures   service -> the on_success / on_failure reports made
\*   last        the last call: service, what can_execute answered, how the
\*               function ended ("return", "raise", "none" when not run) with
\*               its value or exception, and how the wrapper ended with its
\*               value or exception
Services == {"default", "teams_bot"}
NoCall ==
    [service |-> "default", admitted |-> FALSE, outcome |-> "none", what |-> "none",
     result |-> "none", passed |-> "none"]
WrapInit ==
    [circuit_breakers |-> [sv \in Services |-> CircuitBreaker_init],
     calls |-> 0, invoked |-> 0,
     successes |-> [sv \in Services |-> 0], failures |-> [sv \in Services |-> 0],
     last |-> NoCall]

\* max_pages=None; a source none of whose pages is marked as last
NoMax == 0 - 1
NoLast == 0 - 1

\* One call of _coletar_tarefas_intervalo:
\*   usar_full_scan, max_pages   the arguments (max_pages NoMax for None)
\*   last_at    the page whose metadata the task source marks as last
\*   pc         "loop" while the function runs, "done" when it has returned,
\*              "raised" when the task source raised
\*   page       the variable page: the number of the page requested next
\*   requested  the page numbers requested so far, in order (the pages from
\*              MaxScan on are not recorded, nor counted in page)
\*   odd        the number of requests made so far is odd
ScanInit(usar_full_scan, max_pages, last_at) ==
    [usar_full_scan |-> usar_full_scan, max_pages |-> max_pages, last_at |-> last_at,
     pc |-> "loop", page |-> 0, requested |-> <<>>, odd |-> FALSE]

\* the runs that use one lock path
Runs == {"r1", "r2"}

\* how a run that was inside the section has ended
Ended == {"returned", "raised", "killed"}

\* FileLock(path, timeout) and the runs that enter it:
\*   timeout  the timeout argument
\*   file     the lock file exists
\*   pc       per run: "idle", "polling" (in the while True of __enter__),
\*            "inside" (in the with block), "returned" or "raised" (the block
\*            was left and __exit__ has run), "killed" (the process was
\*            killed in the block), "timeout" (__enter__ raised RuntimeError)
\*   start    per run: the variable start of __enter__
\*   after    per run: the runs that had ended when it called __enter__
FlockInit(timeout) ==
    [timeout |-> timeout, file |-> FALSE, pc |-> [r \in Runs |-> "idle"],
     start |-> [r \in Runs |-> 0], after |-> [r \in Runs |-> {}]]

LateStart ==
    /\ wrap = WrapInit
    /\ scan = ScanInit(FALSE, NoMax, 0)
    /\ flock = FlockInit(1)

\* nothing outside the specification at hand ever runs
MoreStart ==
    /\ persist = PersistInit
    /\ lim = LimInit
    /\ cache = CacheInit(1, 1)
    /\ fan = FanInit(FALSE, 0)
    /\ retry = RetryInit("sync", 1, 1, 1)
    /\ LateStart

\* classificar before it is called with the window dias
ClsInit(dias) == [op |-> "init", dias |-> dias, resultado |-> NONE]

\* no card is ever sent, no guarded cycle is ever called
CoreStart ==
    /\ has_resilience = FALSE
    /\ send = SendInit
    /\ limiter = RateLimiter_init([requests_per_second |-> 1, burst_capacity |-> 1], 0)
    /\ run = RunInit(FALSE)
    /\ cls = ClsInit(dias_proximos_padrao)
    /\ GrpStart

AuxStart ==
    /\ CoreStart
    /\ MoreStart

\* the wrapper of resilient around the coroutine function _resilient_send_card,
\* as far as the breaker goes: the call is refused when the breaker does not
\* admit it; otherwise func(...) only builds the coroutine, which cannot
\* raise, and on_success is reported before the coroutine has run.
resilient_async(b, cfg, t) ==
    LET r == can_execute(b, cfg, t) IN
    IF r.ret
    THEN [b |-> on_success(r.b, cfg), admitted |-> TRUE, recorded |-> "success"]
    ELSE [b |-> r.b, admitted |-> FALSE, recorded |-> "none"]

\* ------------------------------------------------- circuit breaker actions
\* History kept beside the breaker:
\*   op, ret       the last call made and what can_execute returned
\*   consec        failures reported since the last reported success
\*   trippedAt     time of the last failure that completed failure_threshold
\*                 failures in a row
\*   hoSuccesses   successes reported since the breaker last entered HALF_OPEN
\*   hoAdmitted    can_execute calls answered true since it last entered
\*                 HALF_OPEN (the call that made the transition included)
\*   hoFailTime    time of the last failure reported while HALF_OPEN
ObsInit ==
    [op |-> "init", ret |-> TRUE, consec |-> 0, trippedAt |-> NoTime,
     hoSuccesses |-> 0, hoAdmitted |-> 0, hoFailTime |-> NoTime]

CBStart ==
    /\ breaker = CircuitBreaker_init
    /\ now = 0
    /\ obs = ObsInit

InitCB ==
    /\ config \in CircuitBreakerConfig
    /\ CBStart
    /\ StoreStart
    /\ today = 0
    /\ CycleStart
    /\ AuxStart

\* the clock advances
Tick ==
    /\ now < MaxTime
    /\ now' = now + 1
    /\ obs' = [obs EXCEPT !.op = "tick"]
    /\ UNCHANGED <<config, breaker, storeVars, cycleVars, auxVars>>

\* a caller asks the breaker for admission
CanExecute ==
    LET r == can_execute(breaker, config, now)
        entered == breaker.state = OPEN /\ r.b.state = HALF_OPEN
    IN
    /\ breaker' = r.b
    /\ obs' = [obs EXCEPT
                 !.op = "can_execute",
                 !.ret = r.ret,
                 !.hoSuccesses = IF entered THEN 0 ELSE @,
                 !.hoAdmitted = IF entered THEN 1
                                ELSE IF breaker.state = HALF_OPEN /\ r.ret
                                     THEN Min(@ + 1, MaxCount) ELSE @]
    /\ UNCHANGED <<config, now, storeVars, cycleVars, auxVars>>

\* a caller reports a success
OnSuccess ==
    /\ breaker.success_count < MaxCount
    /\ breaker' = on_success(breaker, config)
    /\ obs' = [obs EXCEPT
                 !.op = "on_success",
                 !.consec = 0,
                 !.hoSuccesses = IF breaker.state = HALF_OPEN
                                 THEN Min(@ + 1, MaxCount) ELSE @]
    /\ UNCHANGED <<config, now, storeVars, cycleVars, auxVars>>

\* a caller reports a failure
OnFailure ==
    /\ breaker.failure_count < MaxCount
    /\ breaker' = on_failure(breaker, config, now)
    /\ obs' = [obs EXCEPT
                 !.op = "on_failure",
                 !.consec = Min(@ + 1, MaxCount),
                 !.trippedAt = IF obs.consec + 1 >= config.failure_threshold
                               THEN now ELSE @,
                 !.hoFailTime = IF breaker.state = HALF_OPEN THEN now ELSE @]
    /\ UNCHANGED <<config, now, storeVars, cycleVars, auxVars>>

NextCB == Tick \/ CanExecute \/ OnSuccess \/ OnFailure

SpecCB == InitCB /\ [][NextCB]_vars

\* ------------------------------------------------ store specification
\* the lists of (key, succeeded) the store is called with: keys of one task
StoreKeys(hoje) == {criar_chave_idempotencia(<<"1">>, a, hoje) : a \in Aliases}

Envios(hoje) ==
    UNION {[1..n -> StoreKeys(hoje) \X BOOLEAN] : n \in 1..MaxBatch}

\* NotificationStateStorage.__init__: _load_state reads the file, which is
\* absent or was left by a cycle that marked one key on day 0
LoadedStates ==
    {<<>>} \cup {<<strftime(0)>> :> <<k>> : k \in StoreKeys(0)}

InitStore ==
    /\ config = [failure_threshold |-> 1, recovery_timeout_seconds |-> 1,
                 half_open_max_calls |-> 1, success_threshold |-> 1]
    /\ CBStart
    /\ file \in LoadedStates
    /\ data = file
    /\ storeObs = [op |-> "init", envios |-> <<>>, marks |-> 0, purged |-> {}]
    /\ today = 0
    /\ CycleStart
    /\ AuxStart

\* one call of marcar_envios_bem_sucedidos(envios, state_storage)
Marcar ==
    /\ storeObs.marks < MaxMarks
    /\ \E envios \in Envios(today) :
        /\ data' = marcar_envios_bem_sucedidos(envios, data, today)
        /\ file' = save_state(file, envios, data')
        /\ storeObs' = [op |-> "marcar", envios |-> envios,
                        marks |-> storeObs.marks + 1,
                        purged |-> storeObs.purged \cup (DOMAIN data \ DOMAIN data')]
    /\ UNCHANGED <<today, cbVars, cycleVars, auxVars>>

\* midnight passes
NextDay ==
    /\ today < MaxDay
    /\ today' = today + 1
    /\ storeObs' = [storeObs EXCEPT !.op = "next_day", !.envios = <<>>]
    /\ UNCHANGED <<data, file, cbVars, cycleVars, auxVars>>

NextStore == Marcar \/ NextDay

SpecStore == InitStore /\ [][NextStore]_vars

\* ------------------------------------------------ cycle specification
TaskLists(hoje) == UNION {[1..n -> TaskPool(hoje)] : n \in 0..MaxTasks}

\* notify_once.py runs the engine of src/engine, function_app.py the one of
\* azure_functions/shared_code/engine
RootEngine == entry = "notify_once"

InitCycle ==
    /\ config = [failure_threshold |-> 1, recovery_timeout_seconds |-> 1,
                 half_open_max_calls |-> 1, success_threshold |-> 1]
    /\ CBStart
    /\ StoreStart
    /\ today = 2
    /\ entry \in {"notify_once", "function_app"}
    /\ execution_mode \in {"dry_run", "live"}
    /\ tarefas \in TaskLists(today)
    /\ responsaveis \in [TaskIds -> RespLists]
    /\ bot \in BOOLEAN
    /\ inv = [i \in Invocations |-> InvIdle]
    /\ lock = "free"
    /\ hist = HistInit
    /\ AuxStart

Delivered == UNION {hist.deliveredBy[j] : j \in Invocations}

\* the first sender tried for a responsible
FirstStep == IF bot THEN "cards" ELSE "webhook"

\* the keys of a list of (task, key) pairs, each key once, in order
RECURSIVE DistinctKeys(_, _)
DistinctKeys(itens, acc) ==
    IF itens = <<>> THEN acc
    ELSE DistinctKeys(Tail(itens),
             IF Head(itens)[2] \in Range(acc) THEN acc ELSE Append(acc, Head(itens)[2]))

\* notify_once.main enters FileLock and then calls the cycle;
\* function_app._run_cycle calls the cycle at once
Start(i) ==
    /\ inv[i].pc = "idle"
    /\ \A j \in Earlier(i) : inv[j].pc # "idle"
    /\ IF entry = "notify_once"
       THEN lock = "free" /\ lock' = i
       ELSE lock' = lock
    /\ inv' = [inv EXCEPT ![i].pc = "started"]
    /\ hist' = [hist EXCEPT !.seen[i] =
                   UNION {hist.deliveredBy[j] : j \in {x \in Invocations : inv[x].pc = "done"}}]
    /\ UNCHANGED <<inputVars, cbVars, storeVars, auxVars>>

\* FileLock.__enter__ gives up after its timeout while the lock file exists
LockTimeout(i) ==
    /\ inv[i].pc = "idle"
    /\ entry = "notify_once"
    /\ lock # "free"
    /\ inv' = [inv EXCEPT ![i].pc = "aborted"]
    /\ UNCHANGED <<inputVars, lock, hist, cbVars, storeVars, auxVars>>

\* run_notification_cycle up to the list of messages; a notify_once process
\* builds its store from the file, the function app keeps one store
Prepare(i) ==
    /\ inv[i].pc = "started"
    /\ LET d == IF entry = "notify_once" THEN file ELSE data
           msgs == preparar(tarefas, responsaveis, today, d, ~RootEngine)
       IN /\ data' = d
          /\ inv' = [inv EXCEPT ![i] =
                [pc |-> IF execution_mode = "dry_run" \/ msgs = <<>>
                        THEN "finishing" ELSE FirstStep,
                 msgs |-> IF execution_mode = "dry_run" THEN <<>> ELSE msgs,
                 ri |-> 1, ci |-> 1, envios |-> <<>>]]
    /\ UNCHANGED <<inputVars, lock, hist, cbVars, file, today, storeObs, auxVars>>

\* the end of the turn of a responsible: marcar_envios_bem_sucedidos with the
\* list of (key, succeeded) of the turn, then the next responsible or the end
MarkAndAdvance(i, envios) ==
    /\ data' = marcar_envios_bem_sucedidos(envios, data, today)
    /\ file' = save_state(file, envios, data')
    /\ inv' = [inv EXCEPT
          ![i].envios = <<>>,
          ![i].ci = 1,
          ![i].ri = IF @ < Len(inv[i].msgs) THEN @ + 1 ELSE @,
          ![i].pc = IF inv[i].ri < Len(inv[i].msgs) THEN FirstStep ELSE "finishing"]

\* one card of the bot path. The send completes with true ("ok"), completes
\* with false ("false"), is only scheduled on the running loop ("scheduled"),
\* or building the card raises ("raise"); the engine looks at none of the
\* three results of a send that does not raise. After the last card the keys
\* are marked, unless no card went out and the webhook is tried.
CardOutcomes == {"ok", "false", "scheduled", "raise"}

SendCard(i) ==
    /\ inv[i].pc = "cards"
    /\ \E outcome \in CardOutcomes :
        LET itens == inv[i].msgs[inv[i].ri].itens
            chave == itens[inv[i].ci][2]
            envios == Append(inv[i].envios, <<chave, outcome # "raise">>)
            ultimo == inv[i].ci = Len(itens)
            mensagem_enviada ==
                IF RootEngine THEN TRUE
                ELSE \E j \in DOMAIN envios : envios[j][2]
        IN /\ outcome # "ok" => hist.faults < MaxFaults
           /\ IF ultimo /\ mensagem_enviada
              THEN MarkAndAdvance(i, envios)
              ELSE /\ inv' = [inv EXCEPT ![i].envios = envios,
                                         ![i].ci = IF ultimo THEN 1 ELSE @ + 1,
                                         ![i].pc = IF ultimo THEN "webhook" ELSE "cards"]
                   /\ UNCHANGED <<data, file>>
           /\ hist' = [hist EXCEPT
                 !.attempts[i] = IF outcome = "raise" THEN @ ELSE Append(@, chave),
                 !.redispatched = IF outcome # "raise" /\ chave \in Delivered
                                  THEN @ \cup {chave} ELSE @,
                 !.deliveredBy[i] = IF outcome = "ok" THEN @ \cup {chave} ELSE @,
                 !.scheduled = IF outcome = "scheduled" THEN @ \cup {<<i, chave>>} ELSE @,
                 !.faults = IF outcome = "ok" THEN @ ELSE @ + 1]
    /\ UNCHANGED <<inputVars, lock, cbVars, today, storeObs, auxVars>>

\* enviar_teams_mensagem for the responsible: it posts the message ("ok"),
\* gives up after its retries ("raise"), or, in src/teams/webhook.py, returns
\* without posting because TEAMS_WEBHOOK_URL is not set ("none"); then the
\* keys are marked
WebhookOutcomes == IF RootEngine THEN {"ok", "raise", "none"} ELSE {"ok", "raise"}

Webhook(i) ==
    /\ inv[i].pc = "webhook"
    /\ \E outcome \in WebhookOutcomes :
        LET itens == inv[i].msgs[inv[i].ri].itens
            chaves == DistinctKeys(itens, <<>>)
        IN /\ outcome # "ok" => hist.faults < MaxFaults
           /\ MarkAndAdvance(i, inv[i].envios \o
                  [j \in DOMAIN itens |-> <<itens[j][2], outcome # "raise">>])
           /\ hist' = [hist EXCEPT
                 !.attempts[i] = IF outcome = "none" THEN @ ELSE @ \o chaves,
                 !.redispatched = IF outcome = "none" THEN @
                                  ELSE @ \cup (Range(chaves) \cap Delivered),
                 !.deliveredBy[i] = IF outcome = "ok" THEN @ \cup Range(chaves) ELSE @,
                 !.faults = IF outcome = "ok" THEN @ ELSE @ + 1]
    /\ UNCHANGED <<inputVars, lock, cbVars, today, storeObs, auxVars>>

\* the cycle returns; FileLock.__exit__ removes the lock file
Finish(i) ==
    /\ inv[i].pc = "finishing"
    /\ inv' = [inv EXCEPT ![i].pc = "done"]
    /\ lock' = IF lock = i THEN "free" ELSE lock
    /\ UNCHANGED <<inputVars, hist, cbVars, storeVars, auxVars>>

\* a send that was scheduled on the event loop runs to its end
CompleteScheduled ==
    /\ \E sk \in hist.scheduled : \E ok \in BOOLEAN :
        hist' = [hist EXCEPT
            !.scheduled = @ \ {sk},
            !.deliveredBy[sk[1]] = IF ok THEN @ \cup {sk[2]} ELSE @]
    /\ UNCHANGED <<inputVars, inv, lock, cbVars, storeVars, auxVars>>

NextCycle ==
    \/ \E i \in Invocations :
          Start(i) \/ LockTimeout(i) \/ Prepare(i) \/ SendCard(i)
              \/ Webhook(i) \/ Finish(i)
    \/ CompleteScheduled

SpecCycle == InitCycle /\ [][NextCycle]_vars

\* ------------------------------------------------- breaker statistics
\* CircuitBreaker.get_stats: the dictionary returned and the breaker after the
\* call; the entry "can_execute" is the value of a can_execute() call
get_stats(b, cfg, t) ==
    LET r == can_execute(b, cfg, t) IN
    [b |-> r.b,
     stats |-> [state |-> b.state, failure_count |-> b.failure_count,
                can_execute |-> r.ret]]

\* the resilience metrics endpoint: ResilienceManager.get_stats reads the
\* counters of the limiter and asks every breaker for its get_stats
GetStats ==
    LET r == get_stats(breaker, config, now) IN
    /\ breaker' = r.b
    /\ obs' = [obs EXCEPT !.op = "get_stats", !.ret = r.stats.can_execute]
    /\ UNCHANGED <<config, now, storeVars, cycleVars, auxVars>>

NextStats == Tick \/ CanExecute \/ OnSuccess \/ OnFailure \/ GetStats

SpecStats == InitCB /\ [][NextStats]_vars

\* ------------------------------------------------- send specification
InitSend ==
    /\ config \in CircuitBreakerConfig
    /\ CBStart
    /\ StoreStart
    /\ today = 0
    /\ CycleStart
    /\ has_resilience \in BOOLEAN
    /\ send = SendInit
    /\ limiter = RateLimiter_init([requests_per_second |-> 1, burst_capacity |-> 1], 0)
    /\ run = RunInit(FALSE)
    /\ cls = ClsInit(dias_proximos_padrao)
    /\ GrpStart
    /\ MoreStart

\* how a card send ends: BotSender.send_card returns True ("ok"), catches the
\* error of the send and returns False ("false"), or the awaited send is cut
\* short by a timeout or a cancellation ("raise")
SendOutcomes == {"ok", "false", "raise"}

\* one call of _resilient_send_card and the run of its coroutine. Without the
\* resilience modules the decorator is the identity and no breaker is told.
ResilientSendCard ==
    /\ \E outcome \in SendOutcomes :
        LET w == IF has_resilience
                 THEN resilient_async(breaker, config, now)
                 ELSE [b |-> breaker, admitted |-> TRUE, recorded |-> "none"]
        IN /\ breaker' = w.b
           /\ send' = IF w.admitted
                      THEN [op |-> "send", outcome |-> outcome, recorded |-> w.recorded,
                            consec |-> IF outcome = "ok" THEN 0
                                       ELSE Min(send.consec + 1, MaxCount)]
                      ELSE [send EXCEPT !.op = "refused", !.outcome = "none",
                                        !.recorded = w.recorded]
    /\ UNCHANGED <<config, now, obs, storeVars, cycleVars, has_resilience, runVars, cls, grp, flt, moreVars>>

NextSend == Tick \/ ResilientSendCard

SpecSend == InitSend /\ [][NextSend]_vars

\* ------------------------------------------------- the guarded cycle call
\* One process calls run_notification_cycle, decorated with
\* resilient(service="notification_cycle", check_rate_limit=True), up to
\* MaxCalls times; breaker and config are those of "notification_cycle".
InitRun ==
    /\ config = [failure_threshold |-> 1, recovery_timeout_seconds |-> 1,
                 half_open_max_calls |-> 1, success_threshold |-> 1]
    /\ CBStart
    /\ StoreStart
    /\ today = 2
    /\ entry \in {"notify_once", "function_app"}
    /\ execution_mode \in {"dry_run", "live"}
    /\ tarefas \in TaskLists(today)
    /\ responsaveis \in [TaskIds -> RespLists]
    /\ bot \in BOOLEAN
    /\ inv = [i \in Invocations |-> InvIdle]
    /\ lock = "free"
    /\ hist = HistInit
    /\ has_resilience \in BOOLEAN
    /\ send = SendInit
    /\ limiter \in {RateLimiter_init(c, 0) : c \in RateLimitConfig}
    /\ run \in {RunInit(v) : v \in BOOLEAN}
    /\ cls = ClsInit(dias_proximos_padrao)
    /\ GrpStart
    /\ MoreStart

\* the wrapper of resilient on entry: the call is refused with
\* Exception("Resilience check failed ...") when the manager says no
CallCycle ==
    /\ run.pc = "idle"
    /\ run.calls < MaxCalls
    /\ LET g == IF has_resilience
                THEN ResilienceManager_can_execute(limiter, breaker, config, now, TRUE)
                ELSE [l |-> limiter, b |-> breaker, ret |-> TRUE]
           fresh == [RunInit(run.verbose) EXCEPT
                        !.calls = run.calls + 1,
                        !.alerta = run.alerta,
                        !.limite = run.limite,
                        !.modes = Append(run.modes, execution_mode)]
       IN /\ limiter' = g.l
          /\ breaker' = g.b
          /\ run' = IF g.ret THEN [fresh EXCEPT !.pc = "collect"]
                    ELSE [fresh EXCEPT !.result = "raised", !.cause = "resilience"]
    /\ UNCHANGED <<config, now, obs, storeVars, cycleVars, has_resilience, send, cls, grp, flt, moreVars>>

\* an exception leaves run_notification_cycle: the wrapper reports the
\* failure to the breaker and raises it again
RaiseOut(cause) ==
    /\ run' = [run EXCEPT !.pc = "idle", !.result = "raised", !.cause = cause]
    /\ breaker' = IF has_resilience THEN on_failure(breaker, config, now) ELSE breaker

\* mutant of envio_ou_dry_run: a dry run sends as a live cycle does
envio_SemDryRun(mode, msgs) ==
    IF msgs # <<>> THEN "dispatch" ELSE "metrics"

\* step 7, "Envio ou Dry-run": a dry run only prints what was prepared; a live
\* cycle goes through mensagens_enviadas
envio_ou_dry_run(mode, msgs) ==
    IF mode = "dry_run" THEN "metrics"
    ELSE IF msgs # <<>> THEN "dispatch" ELSE "metrics"

\* steps 1 to 7: _coletar_tarefas_intervalo either raises (the task source
\* cannot be reached) or returns the tasks, which are classified, grouped,
\* ordered and filtered; a live cycle without bot_sender first sends the
\* global summary through the webhook
Collect ==
    /\ run.pc = "collect"
    /\ \E reached \in BOOLEAN :
         IF reached
         THEN LET msgs == preparar_limite(tarefas, responsaveis, today, data, ~RootEngine,
                                          run.limite)
                  passo == envio_ou_dry_run(execution_mode, msgs)
              IN
              /\ run' = [run EXCEPT
                            !.selected = msgs,
                            !.pc = passo,
                            !.notifier = IF execution_mode = "live" /\ ~bot
                                         THEN @ \cup {"resumo_global"} ELSE @]
              /\ UNCHANGED breaker
         ELSE RaiseOut("collection")
    /\ UNCHANGED <<config, now, obs, storeVars, cycleVars, has_resilience, send, limiter, cls, grp, flt, moreVars>>

\* how the dispatch to one responsible ends: every pair went out ("sent"),
\* the send failed and every pair is recorded as a failure ("failed"), or an
\* exception reaches the handler of the responsible's try ("error": with a
\* bot_sender, mapear_apelido_para_teams_id and the conversation lookup run
\* outside the inner handlers)
DispatchOutcomes == {"sent", "failed", "error"}

\* one turn of the loop over mensagens_enviadas. The handler of the engine of
\* src/engine prints a variable the live branch never binds when verbose is
\* set, so the handler itself raises and the exception leaves the cycle.
DispatchRecipient ==
    /\ run.pc = "dispatch"
    /\ \E outcome \in DispatchOutcomes :
         LET m == run.selected[run.next]
             envios == [k \in DOMAIN m.itens |-> <<m.itens[k][2], outcome = "sent">>]
         IN /\ outcome = "error" => bot
            /\ IF outcome = "error"
               THEN UNCHANGED <<data, file>>
               ELSE /\ data' = marcar_envios_bem_sucedidos(envios, data, today)
                    /\ file' = save_state(file, envios, data')
            /\ IF outcome = "error" /\ RootEngine /\ run.verbose
               THEN RaiseOut("dispatch")
               ELSE /\ run' = [run EXCEPT
                                 !.outcomes = Append(@, <<m.apelido, outcome>>),
                                 !.dispatched =
                                     IF outcome = "error" THEN @
                                     ELSE @ \o [k \in DOMAIN m.itens |->
                                             [apelido |-> m.apelido,
                                              nome |-> classificar(m.itens[k][1], today,
                                                           dias_proximos_padrao, ~RootEngine)]],
                                 !.notifier = IF outcome = "error" THEN @
                                              ELSE @ \cup {"responsavel"},
                                 !.next = @ + 1,
                                 !.pc = IF run.next < Len(run.selected)
                                        THEN "dispatch" ELSE "metrics"]
                    /\ UNCHANGED breaker
    /\ UNCHANGED <<config, now, obs, today, storeObs, cycleVars, has_resilience, send, limiter,
                    cls, grp, flt, moreVars>>

\* zero_abertos: no collected task has an open status
zero_abertos(ts) == ~ \E i \in DOMAIN ts : ts[i].status \in STATUS_ABERTOS

\* steps 8 to 10 and the return: write_notification_cycle, the warning of a
\* window without open tasks (sent to the webhook by a live cycle when
\* ALERT_ZERO_ABERTOS_TO_TEAMS is set), then the result dictionary; the
\* wrapper reports the success to the breaker
Metrics ==
    /\ run.pc = "metrics"
    /\ run' = [run EXCEPT
                  !.pc = "idle", !.metrics = TRUE, !.result = "returned",
                  !.counts = counts_final(tarefas, today, dias_proximos_padrao,
                                          ~RootEngine, Len(run.selected)),
                  !.notifier = IF zero_abertos(tarefas) /\ run.alerta
                                  /\ execution_mode = "live"
                               THEN @ \cup {"zero_abertos"} ELSE @]
    /\ breaker' = IF has_resilience THEN on_success(breaker, config) ELSE breaker
    /\ UNCHANGED <<config, now, obs, storeVars, cycleVars, has_resilience, send, limiter, cls, grp, flt, moreVars>>

NextRun == Tick \/ CallCycle \/ Collect \/ DispatchRecipient \/ Metrics

SpecRun == InitRun /\ [][NextRun]_vars

\* ------------------------------------------------- dry runs and live cycles
\* Without the resilience modules, the cycle is called in one mode and then
\* in the other.
InitDry ==
    /\ config = [failure_threshold |-> 1, recovery_timeout_seconds |-> 1,
                 half_open_max_calls |-> 1, success_threshold |-> 1]
    /\ CBStart
    /\ StoreStart
    /\ today = 2
    /\ entry \in {"notify_once", "function_app"}
    /\ execution_mode \in {"dry_run", "live"}
    /\ tarefas \in TaskLists(today)
    /\ responsaveis \in [TaskIds -> RespLists]
    /\ bot \in BOOLEAN
    /\ inv = [i \in Invocations |-> InvIdle]
    /\ lock = "free"
    /\ hist = HistInit
    /\ has_resilience = FALSE
    /\ send = SendInit
    /\ limiter = RateLimiter_init([requests_per_second |-> 1, burst_capacity |-> 1], 0)
    /\ run \in {[RunInit(FALSE) EXCEPT !.alerta = a] : a \in BOOLEAN}
    /\ cls = ClsInit(dias_proximos_padrao)
    /\ GrpStart
    /\ MoreStart

\* the caller asks for the other execution_mode in its next call
SetMode ==
    /\ run.pc = "idle"
    /\ run.calls > 0
    /\ execution_mode' = IF execution_mode = "dry_run" THEN "live" ELSE "dry_run"
    /\ UNCHANGED <<cbVars, storeVars, entry, tarefas, responsaveis, bot, inv, lock, hist,
                   auxVars>>

NextDry == SetMode \/ CallCycle \/ Collect \/ DispatchRecipient \/ Metrics

SpecDry == InitDry /\ [][NextDry]_vars

\* ------------------------------------------------------- ordered cycles
\* the lists listar_responsaveis_tarefa can return when either responsible
\* can come first
OrderResp == {<<<<"a">>>>, <<<<"b">>>>, <<<<"a">>, <<"b">>>>, <<<<"b">>, <<"a">>>>}

\* live cycles with a small limite_responsaveis_notificar
InitOrder ==
    /\ config = [failure_threshold |-> 1, recovery_timeout_seconds |-> 1,
                 half_open_max_calls |-> 1, success_threshold |-> 1]
    /\ CBStart
    /\ StoreStart
    /\ today = 2
    /\ entry \in {"notify_once", "function_app"}
    /\ execution_mode = "live"
    /\ tarefas \in TaskLists(today)
    /\ responsaveis \in [TaskIds -> OrderResp]
    /\ bot \in BOOLEAN
    /\ inv = [i \in Invocations |-> InvIdle]
    /\ lock = "free"
    /\ hist = HistInit
    /\ has_resilience = FALSE
    /\ send = SendInit
    /\ limiter = RateLimiter_init([requests_per_second |-> 1, burst_capacity |-> 1], 0)
    /\ run \in {[RunInit(FALSE) EXCEPT !.limite = l] : l \in 1..MaxLimite}
    /\ cls = ClsInit(dias_proximos_padrao)
    /\ GrpStart
    /\ MoreStart

NextOrder == CallCycle \/ Collect \/ DispatchRecipient \/ Metrics

SpecOrder == InitOrder /\ [][NextOrder]_vars

\* ----------------------------------------------------- counted dry runs
Digits == <<"1", "2", "3", "4", "5", "6", "7", "8", "9">>

\* the id of the k-th collected task
CountId(k) == <<Digits[k]>>

\* what a collected task can be on day hoje: open and due three days ago,
\* yesterday, today or in two days, or concluded and due today
CountPool(hoje) ==
    {<<"A", hoje - 3>>, <<"A", hoje - 1>>, <<"A", hoje>>, <<"A", hoje + 2>>, <<"C", hoje>>}

CountLists(hoje) ==
    UNION {{[k \in 1..n |-> Tarefa(CountId(k), f[k][1], f[k][2])] :
               f \in [1..n -> CountPool(hoje)]} : n \in 0..MaxColeta}

\* dry runs over distinct tasks that all belong to one responsible
InitCount ==
    /\ config = [failure_threshold |-> 1, recovery_timeout_seconds |-> 1,
                 half_open_max_calls |-> 1, success_threshold |-> 1]
    /\ CBStart
    /\ StoreStart
    /\ today = 3
    /\ entry \in {"notify_once", "function_app"}
    /\ execution_mode = "dry_run"
    /\ tarefas \in CountLists(today)
    /\ responsaveis = [k \in {CountId(k) : k \in 1..Len(Digits)} |-> <<<<"a">>>>]
    /\ bot = FALSE
    /\ inv = [i \in Invocations |-> InvIdle]
    /\ lock = "free"
    /\ hist = HistInit
    /\ has_resilience = FALSE
    /\ send = SendInit
    /\ limiter = RateLimiter_init([requests_per_second |-> 1, burst_capacity |-> 1], 0)
    /\ run = RunInit(FALSE)
    /\ cls = ClsInit(dias_proximos_padrao)
    /\ GrpStart
    /\ MoreStart

NextCount == CallCycle \/ Collect \/ Metrics

SpecCount == InitCount /\ [][NextCount]_vars

\* ------------------------------------------------------- classification
\* the due dates a task can carry on day hoje: from two days before hoje to
\* one day after the longest window, none, or text that is no date
DueTexts(hoje) ==
    {strftime(d) : d \in (hoje - 2)..(hoje + MaxWindow + 1)} \cup {SemData, DataInvalida}

\* one task is given to the classificar of one of the two engines
InitClassify ==
    /\ config = [failure_threshold |-> 1, recovery_timeout_seconds |-> 1,
                 half_open_max_calls |-> 1, success_threshold |-> 1]
    /\ CBStart
    /\ StoreStart
    /\ today \in 2..3
    /\ entry \in {"notify_once", "function_app"}
    /\ execution_mode = "dry_run"
    /\ tarefas \in {<<[id |-> id, status |-> st, dataVencimento |-> dv]>> :
                       id \in TaskIds, st \in {"A", "C"}, dv \in DueTexts(today)}
    /\ responsaveis = [t \in TaskIds |-> <<<<"a">>>>]
    /\ bot = FALSE
    /\ inv = [i \in Invocations |-> InvIdle]
    /\ lock = "free"
    /\ hist = HistInit
    /\ has_resilience = FALSE
    /\ send = SendInit
    /\ limiter = RateLimiter_init([requests_per_second |-> 1, burst_capacity |-> 1], 0)
    /\ run = RunInit(FALSE)
    /\ cls \in {ClsInit(w) : w \in 0..MaxWindow}
    /\ GrpStart
    /\ MoreStart

\* classificar(tarefa, hoje, dias_proximos)
Classificar ==
    /\ cls.op = "init"
    /\ cls' = [cls EXCEPT !.op = "classificar",
                          !.resultado = classificar(tarefas[1], today, cls.dias, ~RootEngine)]
    /\ UNCHANGED <<cbVars, storeVars, cycleVars, has_resilience, send, runVars, grp, flt, moreVars>>

NextClassify == Classificar

SpecClassify == InitClassify /\ [][NextClassify]_vars

\* ------------------------------------------------------------- grouping
\* what listar_responsaveis_tarefa does for a task: a list, or it raises
LookupResults == {<<<<"a">>>>, <<<<"a">>, <<"b">>>>, LookupFails}

\* relevant tasks, all due today, are given to agrupar_por_responsavel
InitGroup ==
    /\ config = [failure_threshold |-> 1, recovery_timeout_seconds |-> 1,
                 half_open_max_calls |-> 1, success_threshold |-> 1]
    /\ CBStart
    /\ StoreStart
    /\ today = 2
    /\ entry \in {"notify_once", "function_app"}
    /\ execution_mode = "dry_run"
    /\ tarefas \in {[k \in 1..n |-> Tarefa(CountId(k), "A", today)] : n \in 0..MaxRelevantes}
    /\ responsaveis \in [{CountId(k) : k \in 1..MaxRelevantes} -> LookupResults]
    /\ bot = FALSE
    /\ inv = [i \in Invocations |-> InvIdle]
    /\ lock = "free"
    /\ hist = HistInit
    /\ has_resilience = FALSE
    /\ send = SendInit
    /\ limiter = RateLimiter_init([requests_per_second |-> 1, burst_capacity |-> 1], 0)
    /\ run = RunInit(FALSE)
    /\ cls = ClsInit(dias_proximos_padrao)
    /\ grp \in {GrpInit(m) : m \in 0..MaxLookups}
    /\ flt = FltInit(<<>>, <<"a">>)
    /\ MoreStart

\* agrupar_por_responsavel(relevantes, max_responsaveis_lookup=max)
Agrupar ==
    /\ grp.op = "init"
    /\ grp' = [grp EXCEPT
                  !.op = "agrupar",
                  !.chamadas = chamadas_listar(tarefas, responsaveis, grp.max, 0),
                  !.grupos = agrupar_por_responsavel(tarefas, responsaveis, grp.max, 0, <<>>)]
    /\ UNCHANGED <<cbVars, storeVars, cycleVars, has_resilience, send, runVars, cls, flt, moreVars>>

NextGroup == Agrupar

SpecGroup == InitGroup /\ [][NextGroup]_vars

\* ------------------------------------------------------------ filtering
\* a bucket of a responsible: up to MaxBucket tasks
BucketLists(hoje) ==
    UNION {[1..n -> {Tarefa(id, "A", hoje) : id \in TaskIds}] : n \in 0..MaxBucket}

\* the set S as a list
RECURSIVE ListOf(_)
ListOf(S) ==
    IF S = {} THEN <<>>
    ELSE LET x == CHOOSE y \in S : TRUE IN <<x>> \o ListOf(S \ {x})

\* the stores a cycle of day hoje can find: nothing sent yet, or some of the
\* keys of the day marked
FilterStores(hoje) ==
    {<<>>} \cup {(<<strftime(hoje)>> :> ListOf(S)) : S \in (SUBSET KeysOn(hoje)) \ {{}}}

\* the buckets of one responsible are given to aplicar_filtro_idempotencia
InitFilter ==
    /\ config = [failure_threshold |-> 1, recovery_timeout_seconds |-> 1,
                 half_open_max_calls |-> 1, success_threshold |-> 1]
    /\ CBStart
    /\ today = 2
    /\ data \in FilterStores(today)
    /\ file = data
    /\ storeObs = [op |-> "init", envios |-> <<>>, marks |-> 0, purged |-> {}]
    /\ entry \in {"notify_once", "function_app"}
    /\ execution_mode = "live"
    /\ tarefas = <<>>
    /\ responsaveis = [t \in TaskIds |-> <<<<"a">>>>]
    /\ bot = FALSE
    /\ inv = [i \in Invocations |-> InvIdle]
    /\ lock = "free"
    /\ hist = HistInit
    /\ has_resilience = FALSE
    /\ send = SendInit
    /\ limiter = RateLimiter_init([requests_per_second |-> 1, burst_capacity |-> 1], 0)
    /\ run = RunInit(FALSE)
    /\ cls = ClsInit(dias_proximos_padrao)
    /\ grp = GrpInit(max_responsaveis_lookup)
    /\ flt \in {FltInit(<<[nome |-> BucketNames[1], tarefas |-> v],
                          [nome |-> BucketNames[2], tarefas |-> h],
                          [nome |-> BucketNames[3], tarefas |-> p]>>, a) :
                   v \in BucketLists(today), h \in BucketLists(today),
                   p \in BucketLists(today), a \in Aliases}
    /\ MoreStart

\* aplicar_filtro_idempotencia(bkt, apelido, hoje, state_storage)
Filtrar ==
    /\ flt.op = "init"
    /\ flt' = [flt EXCEPT
                  !.op = "filtrar",
                  !.buckets_filtrados =
                      buckets_filtrados(flt.buckets_originais, flt.apelido, today, data)]
    /\ UNCHANGED <<cbVars, storeVars, cycleVars, has_resilience, send, runVars, cls, grp, moreVars>>

NextFilter == Filtrar

SpecFilter == InitFilter /\ [][NextFilter]_vars

\* ------------------------------------------- state file specification
\* mutant of load_state_v2: the error of open or json.load is not caught
load_state_Propaga(kind, content) ==
    [raised |-> kind \in {"unreadable", "invalid"},
     ret |-> IF kind = "valid" THEN content ELSE <<>>]

\* NotificationStateStorage._load_state: the sent_today map of the document
\* read; the default (no date at all) when the file does not exist or when
\* open or json.load raises, the except clause catching whatever they raise
load_state_v2(kind, content) ==
    [raised |-> FALSE, ret |-> IF kind = "valid" THEN content ELSE <<>>]

\* the file as _save_state's open(self.file_path, 'w') leaves it: open raises
\* on a file that cannot be opened (the except clause logs and goes on) and
\* truncates any other
open_w(kind) == IF kind = "unreadable" THEN "unreadable" ELSE "invalid"

\* self._data["metadata"]["last_updated"] = ... of _save_state: a KeyError
\* when the document loaded has no "metadata"; the except clause of
\* _save_state logs it and the method returns without opening the file
save_state_writes(hasMeta) == hasMeta

\* the files a process may find at start: none, one it cannot open, one that
\* is no JSON document, or a document with a sent_today map of day 0, with or
\* without a "metadata" section beside it
InitPersist ==
    /\ config = [failure_threshold |-> 1, recovery_timeout_seconds |-> 1,
                 half_open_max_calls |-> 1, success_threshold |-> 1]
    /\ CBStart
    /\ StoreStart
    /\ today = 0
    /\ CycleStart
    /\ CoreStart
    /\ \E k \in {"missing", "unreadable", "invalid", "valid"}, c \in LoadedStates,
          m \in BOOLEAN :
          /\ k # "valid" => c = <<>> /\ m
          /\ persist = [PersistInit EXCEPT !.kind = k, !.content = c, !.meta = m,
                                           !.persisted = KeysIn(c)]
    /\ lim = LimInit
    /\ cache = CacheInit(1, 1)
    /\ fan = FanInit(FALSE, 0)
    /\ retry = RetryInit("sync", 1, 1, 1)
    /\ LateStart

\* a process starts (or starts again after it was killed):
\* NotificationStateStorage.__init__ loads the file
LoadState(w) ==
    /\ persist.pc[w] \in {"down", "idle"}
    /\ LET loaded == load_state_v2(persist.kind, persist.content) IN
       persist' = [persist EXCEPT
           !.pc[w] = IF loaded.raised THEN "down" ELSE "idle",
           !.mem[w] = loaded.ret,
           !.hasMeta[w] = IF persist.kind = "valid" THEN persist.meta ELSE TRUE,
           !.returned[w] = {},
           !.op = IF loaded.raised THEN "load_raised" ELSE "load",
           !.who = w, !.seen = loaded.ret]
    /\ UNCHANGED <<cbVars, storeVars, cycleVars, has_resilience, send, runVars, cls, grp, flt, lim, cache, fan, retry, lateVars>>

\* mark_sent_today(chave) up to the open of _save_state: the key is appended
\* in memory and the file is truncated. The call returns at once, the file
\* untouched, when _save_state fails before the open or in it.
MarkBegin(w) ==
    /\ persist.pc[w] = "idle"
    /\ persist.writes[w] < MaxWrites
    /\ \E chave \in StoreKeys(today) :
        LET opens == save_state_writes(persist.hasMeta[w])
            fails == ~opens \/ persist.kind = "unreadable"
        IN
        persist' = [persist EXCEPT
            !.mem[w] = mark_sent_today(persist.mem[w], chave, today),
            !.writes[w] = @ + 1,
            !.key[w] = chave,
            !.returned[w] = IF fails THEN @ \cup {chave} ELSE @,
            !.pc[w] = IF fails THEN "idle" ELSE "writing",
            !.kind = IF opens THEN open_w(persist.kind) ELSE @,
            !.content = IF fails THEN @ ELSE <<>>,
            !.op = "mark", !.who = w]
    /\ UNCHANGED <<cbVars, storeVars, cycleVars, has_resilience, send, runVars, cls, grp, flt, lim, cache, fan, retry, lateVars>>

\* json.dump of _save_state completes and the file is closed. When another
\* process holds the file open for writing as well, the bytes of the two
\* dumps share the file: it is a document or not, depending on how they fall.
MarkEnd(w) ==
    /\ persist.pc[w] = "writing"
    /\ \E whole \in BOOLEAN :
        /\ (\A v \in Writers \ {w} : persist.pc[v] # "writing") => whole
        /\ persist' = [persist EXCEPT
              !.pc[w] = "idle",
              !.returned[w] = @ \cup {persist.key[w]},
              !.meta = IF whole THEN TRUE ELSE @,
              !.kind = IF whole THEN "valid" ELSE "invalid",
              !.content = IF whole THEN persist.mem[w] ELSE <<>>,
              !.persisted = IF whole THEN @ \cup KeysIn(persist.mem[w]) ELSE @,
              !.op = "saved", !.who = w]
    /\ UNCHANGED <<cbVars, storeVars, cycleVars, has_resilience, send, runVars, cls, grp, flt, lim, cache, fan, retry, lateVars>>

\* the process is killed between the open and the end of the dump
Interrupt(w) ==
    /\ persist.pc[w] = "writing"
    /\ persist' = [persist EXCEPT !.pc[w] = "down", !.mem[w] = <<>>,
                                  !.op = "killed", !.who = w]
    /\ UNCHANGED <<cbVars, storeVars, cycleVars, has_resilience, send, runVars, cls, grp, flt, lim, cache, fan, retry, lateVars>>

NextPersist ==
    \E w \in Writers : LoadState(w) \/ MarkBegin(w) \/ MarkEnd(w) \/ Interrupt(w)

SpecPersist == InitPersist /\ [][NextPersist]_vars

\* One process marks keys in a file that is a JSON document when it starts,
\* nothing interrupting it; whenever it is between two calls, a new store
\* instance may be constructed from the same file.
InitReload ==
    /\ InitPersist
    /\ persist.kind = "valid"

NewInstance ==
    /\ persist.pc["w1"] = "idle"
    /\ LoadState("w2")

NextReload ==
    LoadState("w1") \/ MarkBegin("w1") \/ MarkEnd("w1") \/ NewInstance

SpecReload == InitReload /\ [][NextReload]_vars

\* ------------------------------------------- rate limiter specification
\* the configurations of a limiter, a refill rate of 0 among them
LimiterConfigs == [requests_per_second : 0..MaxRate, burst_capacity : 1..MaxBurst]

InitLimiter ==
    /\ config = [failure_threshold |-> 1, recovery_timeout_seconds |-> 1,
                 half_open_max_calls |-> 1, success_threshold |-> 1]
    /\ CBStart
    /\ StoreStart
    /\ today = 0
    /\ CycleStart
    /\ has_resilience = FALSE
    /\ send = SendInit
    /\ limiter \in {RateLimiter_init(c, 0) : c \in LimiterConfigs}
    /\ run = RunInit(FALSE)
    /\ cls = ClsInit(dias_proximos_padrao)
    /\ GrpStart
    /\ persist = PersistInit
    /\ lim = LimInit
    /\ cache = CacheInit(1, 1)
    /\ fan = FanInit(FALSE, 0)
    /\ retry = RetryInit("sync", 1, 1, 1)
    /\ LateStart

\* time.time() is the wall clock: the system clock is set back
ClockBack ==
    /\ \E t \in 0..(now - 1) : now' = t
    /\ lim' = [lim EXCEPT !.op = "clock_back"]
    /\ UNCHANGED <<config, breaker, obs, storeVars, cycleVars, has_resilience, send,
                   runVars, cls, grp, flt, persist, cache, fan, retry, lateVars>>

\* one call of RateLimiter.can_proceed()
Proceed ==
    /\ lim.calls < MaxProceed
    /\ LET r == can_proceed(limiter, now) IN
        /\ limiter' = r.l
        /\ lim' = [op |-> "proceed", calls |-> lim.calls + 1,
                   granted |-> lim.granted + (IF r.ret THEN 1 ELSE 0),
                   ret |-> r.ret]
    /\ UNCHANGED <<cbVars, storeVars, cycleVars, has_resilience, send, run, cls, grp, flt,
                   persist, cache, fan, retry, lateVars>>

NextLimiter == Tick \/ ClockBack \/ Proceed

SpecLimiter == InitLimiter /\ [][NextLimiter]_vars

\* --------------------------------------------------- cache specification
\* the keys callers pass, and the value they store
CacheKeys == {"a", "A", "b", "c"}
CacheValue == "v"

\* _generate_key for a short key: key.lower().strip()
generate_key(key) == IF key = "A" THEN "a" ELSE key

\* CacheEntry(value, created_at=time.time(), ttl_seconds=ttl): __post_init__
\* sets last_accessed to created_at
CacheEntry(key, value, t, ttl) ==
    [key |-> key, value |-> value, created_at |-> t, ttl_seconds |-> ttl,
     last_accessed |-> t]

\* CacheEntry.is_expired at time t
is_expired(e, t) == t - e.created_at > e.ttl_seconds

\* CacheEntry.touch at time t
touch(e, t) == [e EXCEPT !.last_accessed = t]

\* the position of a key in the dictionary, 0 when it is not there
Position(c, key) ==
    IF \E i \in DOMAIN c : c[i].key = key
    THEN CHOOSE i \in DOMAIN c : c[i].key = key ELSE 0

Without(c, i) == SubSeq(c, 1, i - 1) \o SubSeq(c, i + 1, Len(c))

\* _cleanup_expired at time t
cleanup_expired(c, t) == SelectSeq(c, LAMBDA e : ~is_expired(e, t))

\* mutant of evict_lru: the entry accessed last goes
evict_MaisRecente(c, max_size) ==
    IF Len(c) < max_size THEN c
    ELSE LET mru == CHOOSE i \in DOMAIN c :
                      /\ \A j \in DOMAIN c : c[i].last_accessed >= c[j].last_accessed
                      /\ \A j \in 1..(i - 1) : c[j].last_accessed < c[i].last_accessed
         IN Without(c, mru)

\* _evict_lru: nothing below max_size; otherwise min over the keys by
\* last_accessed, the first of the smallest in dictionary order (max_size is
\* at least 1 here, so that the dictionary is not empty)
evict_lru(c, max_size) ==
    IF Len(c) < max_size THEN c
    ELSE LET lru == CHOOSE i \in DOMAIN c :
                      /\ \A j \in DOMAIN c : c[i].last_accessed <= c[j].last_accessed
                      /\ \A j \in 1..(i - 1) : c[j].last_accessed > c[i].last_accessed
         IN Without(c, lru)

\* self._cache[normalized_key] = entry: a key the dictionary has keeps its
\* place, a new one goes last
store_entry(c, e) ==
    LET i == Position(c, e.key) IN
    IF i = 0 THEN Append(c, e) ELSE [c EXCEPT ![i] = e]

\* ttl = ttl or self.default_ttl: None and 0 both give the default
ttl_or_default(ttl, default_ttl) ==
    IF ttl = NoTtl \/ ttl = 0 THEN default_ttl ELSE ttl

\* mutant of lock_acquire: the lock does not exclude
lock_SemExclusao(l) == TRUE

\* with self._lock: a thread goes in when the lock is free
lock_acquire(l) == l = "free"

InitCache ==
    /\ config = [failure_threshold |-> 1, recovery_timeout_seconds |-> 1,
                 half_open_max_calls |-> 1, success_threshold |-> 1]
    /\ CBStart
    /\ StoreStart
    /\ today = 0
    /\ CycleStart
    /\ CoreStart
    /\ persist = PersistInit
    /\ lim = LimInit
    /\ cache \in {CacheInit(m, d) : m \in 1..MaxCacheSize, d \in 1..MaxTtl}
    /\ fan = FanInit(FALSE, 0)
    /\ retry = RetryInit("sync", 1, 1, 1)
    /\ LateStart

CacheRest ==
    UNCHANGED <<cbVars, storeVars, cycleVars, has_resilience, send, runVars, cls, grp, flt,
                persist, lim, fan, retry, lateVars>>

\* a thread calls get, set or invalidate
CacheCall(t) ==
    /\ cache.pc[t] = "idle"
    /\ cache.ops < MaxCacheOps
    /\ \E op \in {"get", "set", "invalidate"}, key \in CacheKeys,
          ttl \in {NoTtl} \cup 0..MaxTtl, mode \in {"key", "pattern", "all"} :
        /\ op # "set" => ttl = NoTtl
        /\ op # "invalidate" => mode = "key"
        /\ mode = "all" => key = "a"
        /\ cache' = [cache EXCEPT
              !.pc[t] = "wait", !.ops = @ + 1,
              !.arg[t] = [op |-> op, key |-> key, ttl |-> ttl, mode |-> mode],
              !.last = [op |-> "call", ret |-> NONE]]
    /\ CacheRest

\* the thread takes the lock and enters the method
CacheEnter(t) ==
    /\ cache.pc[t] = "wait"
    /\ lock_acquire(cache.lock)
    /\ cache' = [cache EXCEPT !.lock = t, !.pc[t] = cache.arg[t].op,
                              !.last = [op |-> "enter", ret |-> NONE]]
    /\ CacheRest

\* the body of get
CacheGet(t) ==
    /\ cache.pc[t] = "get"
    /\ LET normalized_key == generate_key(cache.arg[t].key)
           i == Position(cache.entries, normalized_key)
           hit == i # 0 /\ ~is_expired(cache.entries[i], now)
       IN cache' = [cache EXCEPT
             !.entries = IF i = 0 THEN cache.entries
                         ELSE IF is_expired(cache.entries[i], now)
                              THEN Without(cache.entries, i)
                         ELSE [cache.entries EXCEPT ![i] = touch(cache.entries[i], now)],
             !.lock = "free", !.pc[t] = "idle", !.arg[t] = NoArg,
             !.last = [op |-> "get", ret |-> IF hit THEN cache.entries[i].value ELSE NONE]]
    /\ CacheRest

\* set up to the insertion: _cleanup_expired, then _evict_lru
CacheSweep(t) ==
    /\ cache.pc[t] = "set"
    /\ LET swept == cleanup_expired(cache.entries, now)
           left == evict_lru(swept, cache.max_size)
           evicted == {swept[i].key : i \in DOMAIN swept} \ {left[i].key : i \in DOMAIN left}
       IN cache' = [cache EXCEPT
             !.entries = left,
             !.pc[t] = "store",
             !.last = [op |-> "sweep",
                       ret |-> IF evicted = {} THEN NONE ELSE CHOOSE k \in evicted : TRUE]]
    /\ CacheRest

\* the rest of set: the entry is built and stored
CacheStore(t) ==
    /\ cache.pc[t] = "store"
    /\ LET normalized_key == generate_key(cache.arg[t].key)
           ttl == ttl_or_default(cache.arg[t].ttl, cache.default_ttl)
       IN cache' = [cache EXCEPT
             !.entries = store_entry(@, CacheEntry(normalized_key, CacheValue, now, ttl)),
             !.asked = (normalized_key :>
                          (IF cache.arg[t].ttl = NoTtl THEN cache.default_ttl
                           ELSE cache.arg[t].ttl)) @@ @,
             !.lock = "free", !.pc[t] = "idle", !.arg[t] = NoArg,
             !.last = [op |-> "set", ret |-> "True"]]
    /\ CacheRest

\* the body of invalidate: one key, the keys that hold the pattern, or all
CacheInvalidate(t) ==
    /\ cache.pc[t] = "invalidate"
    /\ LET a == cache.arg[t]
           gone(e) == CASE a.mode = "key" -> e.key = generate_key(a.key)
                        [] a.mode = "pattern" -> generate_key(a.key) = e.key
                        [] OTHER -> TRUE
           kept == SelectSeq(cache.entries, LAMBDA e : ~gone(e))
       IN cache' = [cache EXCEPT
             !.entries = kept,
             !.lock = "free", !.pc[t] = "idle", !.arg[t] = NoArg,
             !.last = [op |-> "invalidate", ret |-> Len(cache.entries) - Len(kept)]]
    /\ CacheRest

NextCache ==
    \/ Tick
    \/ \E t \in Threads :
          CacheCall(t) \/ CacheEnter(t) \/ CacheGet(t) \/ CacheSweep(t) \/ CacheStore(t) \/ CacheInvalidate(t)

SpecCache == InitCache /\ [][NextCache]_vars

\* ------------------------------------------------ fan-out specification
InitFan ==
    /\ config = [failure_threshold |-> 1, recovery_timeout_seconds |-> 1,
                 half_open_max_calls |-> 1, success_threshold |-> 1]
    /\ CBStart
    /\ StoreStart
    /\ today = 0
    /\ CycleStart
    /\ CoreStart
    /\ persist = PersistInit
    /\ lim = LimInit
    /\ cache = CacheInit(1, 1)
    /\ fan \in {FanInit(l, n) : l \in BOOLEAN, n \in 1..MaxCards}
    /\ retry = RetryInit("sync", 1, 1, 1)
    /\ LateStart

FanRest ==
    UNCHANGED <<cbVars, storeVars, cycleVars, has_resilience, send, runVars, cls, grp, flt,
                persist, lim, cache, retry, lateVars>>

Dispatched == fan.created + fan.sending + fan.done

\* the cycle reaches the send of the next card on a running loop:
\* asyncio.ensure_future, or loop.create_task in _run_coro_safely, creates a
\* task for _resilient_send_card and returns at once
CreateTask ==
    /\ fan.pc = "cycle"
    /\ fan.loop_running
    /\ Dispatched < fan.cards
    /\ fan' = [fan EXCEPT !.created = @ + 1]
    /\ FanRest

\* the same without a running loop: loop.run_until_complete or asyncio.run
\* starts the coroutine and returns when it has finished
RunToCompletion ==
    /\ fan.pc = "cycle"
    /\ ~fan.loop_running
    /\ Dispatched < fan.cards
    /\ fan.sending = 0
    /\ fan' = [fan EXCEPT !.sending = 1]
    /\ FanRest

\* run_notification_cycle returns: every card has been dispatched
CycleReturns ==
    /\ fan.pc = "cycle"
    /\ Dispatched = fan.cards
    /\ fan.sending = 0
    /\ fan' = [fan EXCEPT !.pc = "returned"]
    /\ FanRest

\* the loop, which the cycle held until it returned, starts a task: the
\* coroutine runs up to the await of the send
TaskStarts ==
    /\ fan.pc = "returned"
    /\ fan.created > 0
    /\ fan' = [fan EXCEPT !.created = @ - 1, !.sending = @ + 1]
    /\ FanRest

\* a send comes to its end
SendEnds ==
    /\ fan.sending > 0
    /\ fan' = [fan EXCEPT !.sending = @ - 1, !.done = @ + 1]
    /\ FanRest

NextFan == CreateTask \/ RunToCompletion \/ CycleReturns \/ TaskStarts \/ SendEnds

SpecFan == InitFan /\ [][NextFan]_vars

\* --------------------------------------------------- retry specification
InitRetry ==
    /\ config = [failure_threshold |-> 1, recovery_timeout_seconds |-> 1,
                 half_open_max_calls |-> 1, success_threshold |-> 1]
    /\ CBStart
    /\ StoreStart
    /\ today = 0
    /\ CycleStart
    /\ CoreStart
    /\ persist = PersistInit
    /\ lim = LimInit
    /\ cache = CacheInit(1, 1)
    /\ fan = FanInit(FALSE, 0)
    /\ retry \in {RetryInit(k, m, d, b) : k \in {"sync", "async"}, m \in 1..MaxAttempts,
                                           d \in 1..MaxDelay, b \in 1..MaxBackoff}
    /\ LateStart

\* mutant of next_delay: the delay stays what it was
next_delay_Constante(current_delay, backoff_factor) == current_delay

\* current_delay *= backoff_factor
next_delay(current_delay, backoff_factor) == current_delay * backoff_factor

\* one turn of for attempt in range(max_attempts): the wrapped function is
\* called (awaited, in the async wrapper); its value is returned, or its
\* exception raised when it is not one of exceptions or when this was the
\* last attempt; otherwise the wrapper sleeps current_delay and goes on
Attempt ==
    /\ retry.pc = "loop"
    /\ retry.attempt < retry.max_attempts
    /\ \E out \in {"ok", "error", "other"} :
        LET n == Len(retry.outs) + 1
            r == [retry EXCEPT !.outs = Append(@, out)]
        IN retry' =
             CASE out = "ok" -> [r EXCEPT !.pc = "returned", !.result = n]
               [] out = "other" -> [r EXCEPT !.pc = "raised", !.raised = n]
               [] OTHER ->
                    IF retry.attempt = retry.max_attempts - 1
                    THEN [r EXCEPT !.pc = "raised", !.raised = n]
                    ELSE [r EXCEPT
                            !.waits = Append(@, retry.current_delay),
                            !.current_delay = next_delay(@, retry.backoff_factor),
                            !.attempt = @ + 1]
    /\ UNCHANGED <<cbVars, storeVars, cycleVars, has_resilience, send, runVars, cls, grp, flt,
                   persist, lim, cache, fan, lateVars>>

NextRetry == Attempt

SpecRetry == InitRetry /\ [][NextRetry]_vars

\* ------------------------------------------------- the resilient decorator
\* A synchronous function decorated with resilient(service, check_rate_limit)
\* is called up to MaxWrapped times; every breaker of the manager has the
\* configuration config, the limiter is resilience_manager.rate_limiter.
\* How the function ends when it is run: it returns one of Values or raises
\* one of Errors (instances of Exception).
Values == {"v1", "v2"}
Errors == {"e1", "e2"}
FuncOutcomes ==
    {[kind |-> "return", what |-> v] : v \in Values}
        \cup {[kind |-> "raise", what |-> e] : e \in Errors}

\* mutant of resilient: the except branch reports nothing
resilient_SemRegistro(w, l, cfg, t, service, check_rate_limit, out) ==
    LET cb == w.circuit_breakers[service]
        g == ResilienceManager_can_execute(l, cb, cfg, t, check_rate_limit)
        call == [NoCall EXCEPT !.service = service, !.admitted = g.ret]
    IN
    IF ~g.ret
    THEN [l |-> g.l,
          w |-> [w EXCEPT !.circuit_breakers[service] = g.b,
                          !.calls = @ + 1,
                          !.last = [call EXCEPT !.result = "raise",
                                                !.passed = "ResilienceCheckFailed"]]]
    ELSE IF out.kind = "return"
    THEN [l |-> g.l,
          w |-> [w EXCEPT !.circuit_breakers[service] = on_success(g.b, cfg),
                          !.calls = @ + 1, !.invoked = @ + 1,
                          !.successes[service] = @ + 1,
                          !.last = [call EXCEPT !.outcome = "return", !.what = out.what,
                                                !.result = "return", !.passed = out.what]]]
    ELSE [l |-> g.l,
          w |-> [w EXCEPT !.circuit_breakers[service] = g.b,
                          !.calls = @ + 1, !.invoked = @ + 1,
                          !.last = [call EXCEPT !.outcome = "raise", !.what = out.what,
                                                !.result = "raise", !.passed = out.what]]]

\* the wrapper of resilient(service, check_rate_limit) around a function that
\* ends as out when it is run: the manager and the limiter after the call
resilient(w, l, cfg, t, service, check_rate_limit, out) ==
    LET cb == w.circuit_breakers[service]
        g == ResilienceManager_can_execute(l, cb, cfg, t, check_rate_limit)
        call == [NoCall EXCEPT !.service = service, !.admitted = g.ret]
    IN
    IF ~g.ret
    THEN [l |-> g.l,
          w |-> [w EXCEPT !.circuit_breakers[service] = g.b,
                          !.calls = @ + 1,
                          !.last = [call EXCEPT !.result = "raise",
                                                !.passed = "ResilienceCheckFailed"]]]
    ELSE IF out.kind = "return"
    THEN [l |-> g.l,
          w |-> [w EXCEPT !.circuit_breakers[service] = on_success(g.b, cfg),
                          !.calls = @ + 1, !.invoked = @ + 1,
                          !.successes[service] = @ + 1,
                          !.last = [call EXCEPT !.outcome = "return", !.what = out.what,
                                                !.result = "return", !.passed = out.what]]]
    ELSE [l |-> g.l,
          w |-> [w EXCEPT !.circuit_breakers[service] = on_failure(g.b, cfg, t),
                          !.calls = @ + 1, !.invoked = @ + 1,
                          !.failures[service] = @ + 1,
                          !.last = [call EXCEPT !.outcome = "raise", !.what = out.what,
                                                !.result = "raise", !.passed = out.what]]]

InitWrap ==
    /\ config \in CircuitBreakerConfig
    /\ CBStart
    /\ StoreStart
    /\ today = 0
    /\ CycleStart
    /\ has_resilience = TRUE
    /\ send = SendInit
    /\ limiter \in {RateLimiter_init(c, 0) : c \in RateLimitConfig}
    /\ run = RunInit(FALSE)
    /\ cls = ClsInit(dias_proximos_padrao)
    /\ GrpStart
    /\ MoreStart

\* one call of the decorated function
WrappedCall ==
    /\ wrap.calls < MaxWrapped
    /\ \E service \in Services, check_rate_limit \in BOOLEAN, out \in FuncOutcomes :
        LET r == resilient(wrap, limiter, config, now, service, check_rate_limit, out) IN
        /\ wrap' = r.w
        /\ limiter' = r.l
    /\ UNCHANGED <<cbVars, storeVars, cycleVars, has_resilience, send, run, cls, grp, flt,
                   persist, lim, cache, fan, retry, scan, flock>>

NextWrap == Tick \/ WrappedCall

SpecWrap == InitWrap /\ [][NextWrap]_vars

\* ------------------------------------------------- full-scan collection
\* the calls of _coletar_tarefas_intervalo: one page or a full scan, max_pages
\* None or at least 1 (notify_once refuses a --max-pages below 1, scheduling
\* passes None), over a source that marks one of its pages as last or none
InitScan ==
    /\ config = [failure_threshold |-> 1, recovery_timeout_seconds |-> 1,
                 half_open_max_calls |-> 1, success_threshold |-> 1]
    /\ CBStart
    /\ StoreStart
    /\ today = 0
    /\ CycleStart
    /\ CoreStart
    /\ persist = PersistInit
    /\ lim = LimInit
    /\ cache = CacheInit(1, 1)
    /\ fan = FanInit(FALSE, 0)
    /\ retry = RetryInit("sync", 1, 1, 1)
    /\ wrap = WrapInit
    /\ scan \in {ScanInit(f, m, l) : f \in BOOLEAN, m \in {NoMax} \cup 1..MaxPages,
                                     l \in {NoLast} \cup 0..(MaxScan - 1)}
    /\ flock = FlockInit(1)

ScanRest ==
    UNCHANGED <<cbVars, storeVars, cycleVars, has_resilience, send, runVars, cls, grp, flt,
                persist, lim, cache, fan, retry, wrap, flock>>

\* the two breaks of the while True, page being the value after page += 1 and
\* last the value of meta.get("last")
stops_after(page, last, max_pages) ==
    last \/ (max_pages # NoMax /\ page >= max_pages)

\* one request of _cached_listar_tarefas_page answered by the source: the only
\* one of a single-page collection, or one turn of the while True
FetchPage ==
    /\ scan.pc = "loop"
    /\ LET last == scan.page = scan.last_at
           page == scan.page + 1
           seen == IF Len(scan.requested) < MaxScan
                   THEN Append(scan.requested, scan.page) ELSE scan.requested
       IN scan' = [scan EXCEPT
             !.requested = seen,
             !.odd = ~@,
             !.page = IF scan.usar_full_scan THEN Min(page, MaxScan) ELSE @,
             !.pc = IF ~scan.usar_full_scan \/ stops_after(page, last, scan.max_pages)
                    THEN "done" ELSE "loop"]
    /\ ScanRest

\* the request raises (the source answers with an error or not at all) and
\* the exception leaves the function
FetchRaises ==
    /\ scan.pc = "loop"
    /\ scan' = [scan EXCEPT !.pc = "raised"]
    /\ ScanRest

NextScan == FetchPage \/ FetchRaises

SpecScan == InitScan /\ [][NextScan]_vars

\* the source answers every request in the end
SpecScanFair == SpecScan /\ WF_vars(FetchPage)

\* ------------------------------------------------- file lock
InitLock ==
    /\ config = [failure_threshold |-> 1, recovery_timeout_seconds |-> 1,
                 half_open_max_calls |-> 1, success_threshold |-> 1]
    /\ CBStart
    /\ StoreStart
    /\ today = 0
    /\ CycleStart
    /\ CoreStart
    /\ persist = PersistInit
    /\ lim = LimInit
    /\ cache = CacheInit(1, 1)
    /\ fan = FanInit(FALSE, 0)
    /\ retry = RetryInit("sync", 1, 1, 1)
    /\ wrap = WrapInit
    /\ scan = ScanInit(FALSE, NoMax, 0)
    /\ flock \in {FlockInit(t) : t \in 0..MaxLockTimeout}

LockRest ==
    UNCHANGED <<cbVars, storeVars, cycleVars, has_resilience, send, runVars, cls, grp, flt,
                persist, lim, cache, fan, retry, wrap, scan>>

\* mutant of os_open_excl: the open succeeds on a file that exists
os_open_SemExcl(exists) == TRUE

\* os.open(path, O_CREAT | O_EXCL | O_WRONLY): it creates the file and
\* succeeds exactly when the file does not exist
os_open_excl(exists) == ~exists

\* with FileLock(...): __enter__ reads the clock (a run starts early enough
\* for its timeout to pass before the clock stops at MaxTime)
LockEnter(r) ==
    /\ flock.pc[r] = "idle"
    /\ now + flock.timeout < MaxTime
    /\ flock' = [flock EXCEPT
          !.pc[r] = "polling", !.start[r] = now,
          !.after[r] = {q \in Runs : flock.pc[q] \in Ended}]
    /\ UNCHANGED <<cbVars>>
    /\ LockRest

\* one turn of the while True of __enter__: the file is created and the block
\* entered, or the file exists and the run raises after its timeout, or
\* sleeps and tries again
LockPoll(r) ==
    /\ flock.pc[r] = "polling"
    /\ IF os_open_excl(flock.file)
       THEN flock' = [flock EXCEPT !.file = TRUE, !.pc[r] = "inside"]
       ELSE IF now - flock.start[r] > flock.timeout
            THEN flock' = [flock EXCEPT !.pc[r] = "timeout"]
            ELSE flock' = flock
    /\ UNCHANGED <<cbVars>>
    /\ LockRest

\* the block returns or raises: __exit__ removes the lock file
LockLeave(r) ==
    /\ flock.pc[r] = "inside"
    /\ \E how \in {"returned", "raised"} :
          flock' = [flock EXCEPT !.file = FALSE, !.pc[r] = how]
    /\ UNCHANGED <<cbVars>>
    /\ LockRest

\* the process is killed inside the block: no __exit__ runs
LockKill(r) ==
    /\ flock.pc[r] = "inside"
    /\ flock' = [flock EXCEPT !.pc[r] = "killed"]
    /\ UNCHANGED <<cbVars>>
    /\ LockRest

NextLock ==
    \/ Tick
    \/ \E r \in Runs : LockEnter(r) \/ LockPoll(r) \/ LockLeave(r) \/ LockKill(r)

SpecLock == InitLock /\ [][NextLock]_vars

\* a run that polls goes on polling, and the clock goes on
SpecLockFair ==
    SpecLock /\ WF_vars(Tick) /\ \A r \in Runs : WF_vars(LockPoll(r))

\* ================================================================== claims

\* C1: in a Live cycle a key enters the store only if the send for its
\* recipient and task has completed and reported success: every key the store
\* holds is the key of a delivered send.
C1_MarkedOnlyIfDelivered ==
    \A k \in KeysIn(data) : k \in Delivered

\* C2: a marcar_envios_bem_sucedidos call leaves a key that was not sent and
\* is given only with succeeded=false not sent; it leaves every key given with
\* succeeded=true sent; and a key that is sent stays sent through every call,
\* as long as its date is not older than the retention window (its bucket is
\* not purged).
InList(envios, chave, sucesso) ==
    \E i \in DOMAIN envios : envios[i] = <<chave, sucesso>>

Purged(chave, hoje) == date_str_less(split_first(chave), hoje - RetentionDays)

GivenKeys(envios) == {envios[i][1] : i \in DOMAIN envios}

C2_MarkOnlyOnSuccess ==
    [][ /\ storeObs'.op = "marcar" =>
            \A k \in GivenKeys(storeObs'.envios) :
                /\ (InList(storeObs'.envios, k, FALSE)
                      /\ ~InList(storeObs'.envios, k, TRUE)
                      /\ ~get_sent_today(data, k))
                   => ~get_sent_today(data', k)
                /\ InList(storeObs'.envios, k, TRUE) => get_sent_today(data', k)
        /\ \A k \in KeysIn(data) :
                (get_sent_today(data, k) /\ ~Purged(k, today'))
                   => get_sent_today(data', k)
      ]_vars

C2_Witness ==
    /\ storeObs.op = "marcar"
    /\ storeObs.marks >= 2
    /\ storeObs.purged # {}
    /\ \E k1, k2 \in AllKeys :
        /\ InList(storeObs.envios, k1, FALSE)
        /\ ~InList(storeObs.envios, k1, TRUE)
        /\ ~get_sent_today(data, k1)
        /\ ~InList(storeObs.envios, k2, TRUE)
        /\ ~InList(storeObs.envios, k2, FALSE)
        /\ get_sent_today(data, k2)
        /\ get_sent_today(file, k2)

NoDuplicates(seq) == \A m, n \in DOMAIN seq : m # n => seq[m] # seq[n]

C4_NoPairDispatchedTwice ==
    /\ hist.redispatched = {}
    /\ \A i \in Invocations : NoDuplicates(hist.attempts[i])

\* C5: every invocation that is inside the cycle holds the file lock, no two
\* invocations are inside the cycle together, and no key is delivered by both.
InCycle(i) == inv[i].pc \in {"started", "cards", "webhook", "finishing"}

C5_CyclesRunUnderLock ==
    /\ \A i \in Invocations : InCycle(i) => lock = i
    /\ \A i, j \in Invocations : (i # j /\ InCycle(i)) => ~InCycle(j)
    /\ \A i, j \in Invocations : i # j => hist.deliveredBy[i] \cap hist.deliveredBy[j] = {}

\* C6: once failure_threshold failures have been reported with no success in
\* between, the breaker is OPEN with last_failure_time set to the time of that
\* failure, and every can_execute made before recovery_timeout_seconds have
\* elapsed since then returns false.
C6_OpensAfterThresholdFailures ==
    [][ /\ (obs'.op = "on_failure" /\ obs'.consec >= config.failure_threshold)
            => (breaker'.state = OPEN /\ breaker'.last_failure_time = now)
        /\ (obs'.op = "can_execute" /\ obs.trippedAt # NoTime
                /\ now - obs.trippedAt < config.recovery_timeout_seconds)
            => (obs'.ret = FALSE /\ breaker'.state = OPEN)
      ]_vars

C6_Witness ==
    /\ config.failure_threshold >= 2
    /\ obs.consec >= config.failure_threshold
    /\ breaker.state = OPEN
    /\ breaker.last_failure_time = obs.trippedAt
    /\ obs.op = "can_execute"
    /\ obs.ret = FALSE
    /\ now > obs.trippedAt

\* C7: a can_execute made on an OPEN breaker once recovery_timeout_seconds have
\* elapsed since last_failure_time returns true and leaves the breaker
\* HALF_OPEN; no step takes the breaker from OPEN to CLOSED.
C7_OpenRecoversThroughHalfOpen ==
    [][ /\ (obs'.op = "can_execute" /\ breaker.state = OPEN
                /\ now - breaker.last_failure_time >= config.recovery_timeout_seconds)
            => (obs'.ret = TRUE /\ breaker'.state = HALF_OPEN)
        /\ (breaker.state = OPEN => breaker'.state # CLOSED)
      ]_vars

C7_Witness ==
    /\ breaker.state = HALF_OPEN
    /\ obs.op = "can_execute"
    /\ obs.ret = TRUE
    /\ obs.hoAdmitted = 1
    /\ obs.hoSuccesses = 0
    /\ now - breaker.last_failure_time = config.recovery_timeout_seconds

\* C8: the breaker goes from HALF_OPEN to CLOSED only when success_threshold
\* successes have been reported since it entered HALF_OPEN, and failure_count
\* is then 0.
C8_ClosesAfterSuccessThreshold ==
    [][ (breaker.state = HALF_OPEN /\ breaker'.state = CLOSED)
            => (obs'.hoSuccesses >= config.success_threshold
                /\ breaker'.failure_count = 0)
      ]_vars

\* C9: a failure reported while HALF_OPEN leaves the breaker OPEN, whatever
\* successes were reported in HALF_OPEN, and every can_execute made before
\* recovery_timeout_seconds have elapsed since that failure returns false.
C9_HalfOpenFailureReopens ==
    [][ /\ (obs'.op = "on_failure" /\ breaker.state = HALF_OPEN)
            => (breaker'.state = OPEN /\ breaker'.last_failure_time = now)
        /\ (obs'.op = "can_execute" /\ obs.hoFailTime # NoTime
                /\ now - obs.hoFailTime < config.recovery_timeout_seconds)
            => obs'.ret = FALSE
      ]_vars

C9_Witness ==
    /\ breaker.state = OPEN
    /\ obs.hoFailTime = breaker.last_failure_time
    /\ obs.hoSuccesses >= 1
    /\ obs.op = "can_execute"
    /\ obs.ret = FALSE

\* C10: once half_open_max_calls calls have been admitted since the breaker
\* entered HALF_OPEN and it is still HALF_OPEN, can_execute returns false.
C10_HalfOpenTrialLimit ==
    [][ (obs'.op = "can_execute" /\ breaker.state = HALF_OPEN
            /\ obs.hoAdmitted >= config.half_open_max_calls)
            => obs'.ret = FALSE
      ]_vars

\* C11: a card send that fails is reported to the teams_bot breaker as a
\* failure, never as a success, and once failure_threshold sends in a row have
\* failed the breaker is open.
C11_FailedSendCountsAsFailure ==
    [][ (send'.op = "send" /\ send'.outcome # "ok") =>
            /\ send'.recorded = "failure"
            /\ breaker'.failure_count = breaker.failure_count + 1
            /\ (send'.consec >= config.failure_threshold => breaker'.state = OPEN)
      ]_vars

\* C12: a call of run_notification_cycle ends by raising only when the task
\* collection failed: a refusal by the rate limiter or by an open circuit does
\* not raise out of the cycle, and a cycle whose collection succeeded returns
\* its result record.
C12_OnlyCollectionFailureRaises ==
    run.result = "raised" => run.cause = "collection"

\* C13: in a live cycle the loop over the selected responsibles ends only with
\* one dispatch attempt made for each of them, whatever failed on the way, and
\* goes on to the final statistics.
C13_RecipientFailureIsIsolated ==
    [][ (execution_mode = "live" /\ run.pc = "dispatch" /\ run'.pc # "dispatch") =>
            /\ run'.pc = "metrics"
            /\ Len(run'.outcomes) = Len(run.selected)
      ]_vars

\* the due day of the classified task, or ParseError
DueDay == IF tarefas[1].dataVencimento = SemData THEN ParseError
          ELSE fromisoformat(tarefas[1].dataVencimento)

\* C15: classificar returns "vencidas" exactly for a task due the day before
\* today and "vence_hoje" exactly for a task due today; it returns nothing for
\* a task due two or more days before today and for a task whose due date is
\* absent or is no date; the answer is the same for any other task with the
\* same due date, and the task is in at most one bucket.
C15_ClassifyOverdueAndToday ==
    cls.op = "classificar" =>
        /\ (cls.resultado = "vencidas") <=> (DueDay # ParseError /\ DueDay = today - 1)
        /\ (cls.resultado = "vence_hoje") <=> (DueDay # ParseError /\ DueDay = today)
        /\ (DueDay = ParseError \/ DueDay <= today - 2) => cls.resultado = NONE
        /\ \A id \in TaskIds, st \in {"A", "C"} :
              classificar([tarefas[1] EXCEPT !.id = id, !.status = st],
                          today, cls.dias, ~RootEngine) = cls.resultado
        /\ Len(relevantes(tarefas, today, cls.dias, ~RootEngine)) <= 1

C15_Witness ==
    /\ cls.op = "classificar"
    /\ tarefas[1].dataVencimento = strftime(today - 1)
    /\ cls.resultado = "vencidas"

C15_WitnessNoDate ==
    /\ cls.op = "classificar"
    /\ tarefas[1].dataVencimento = DataInvalida
    /\ cls.resultado = NONE

\* C16: for the window w the cycle was given, classificar returns
\* "vence_em_3_dias" for every task due after today and at most w days ahead,
\* and nothing for every task due more than w days ahead.
C16_DueSoonHonoursWindow ==
    (cls.op = "classificar" /\ DueDay # ParseError /\ DueDay > today) =>
        IF DueDay <= today + cls.dias
        THEN cls.resultado = "vence_em_3_dias"
        ELSE cls.resultado = NONE

\* the execution_mode of the cycle call in progress or last made
ModeOfCall == IF run.modes = <<>> THEN "none" ELSE run.modes[Len(run.modes)]

\* C14: a dry run hands nothing to the notifier (no message to a responsible,
\* no global summary, no warning of a window without open tasks) and leaves
\* the store and its file as they were; the live cycle that follows dry runs
\* on the same day selects every pair a cycle with the untouched store selects.
C14_DryRunHasNoEffect ==
    [][ /\ (ModeOfCall' = "dry_run" /\ (run.pc # "idle" \/ run'.pc # "idle")) =>
              /\ run'.notifier = {}
              /\ data' = data
              /\ file' = file
        /\ (/\ run.pc = "collect" /\ run'.pc \in {"dispatch", "metrics"}
            /\ execution_mode = "live"
            /\ \A k \in 1..(Len(run.modes) - 1) : run.modes[k] = "dry_run") =>
              run'.selected = preparar(tarefas, responsaveis, today, <<>>, ~RootEngine)
      ]_vars

C14_Witness ==
    /\ run.modes = <<"dry_run", "live">>
    /\ run.pc = "dispatch"
    /\ run.next = 2
    /\ "responsavel" \in run.notifier
    /\ data # <<>>

\* the collected open tasks that classificar puts in bucket nome
OpenIn(nome) ==
    {k \in DOMAIN tarefas :
        /\ tarefas[k].status \in STATUS_ABERTOS
        /\ classificar(tarefas[k], today, dias_proximos_padrao, ~RootEngine) = nome}

\* two tasks due today, one due in two days, one due yesterday, one due three
\* days ago, all open
Cenario ==
    <<Tarefa(CountId(1), "A", today), Tarefa(CountId(2), "A", today),
      Tarefa(CountId(3), "A", today + 2), Tarefa(CountId(4), "A", today - 1),
      Tarefa(CountId(5), "A", today - 3)>>

C18_LookupCeiling ==
    grp.op = "agrupar" => grp.chamadas <= grp.max

\* the tasks of a list whose key for the responsible is not in the store
NaoEnviadas(lista) ==
    SelectSeq(lista, LAMBDA t :
        criar_chave_idempotencia(t.id, flt.apelido, today) \notin KeysIn(data))

\* the entries of the result with the name nome
Entradas(resultado, nome) ==
    {k \in DOMAIN resultado : resultado[k].nome = nome}

\* C20: aplicar_filtro_idempotencia gives, for each bucket of the responsible,
\* the tasks whose key date|responsible|task id is not marked sent, in their
\* order, each with its key; a bucket with nothing left has no entry in the
\* result; the store and its file are left as they were.
C20_FilterKeepsUnsentInOrder ==
    [][ (flt.op = "init" /\ flt'.op = "filtrar") =>
          /\ data' = data
          /\ file' = file
          /\ \A k \in DOMAIN flt'.buckets_filtrados : flt'.buckets_filtrados[k].itens # <<>>
          /\ \A b \in DOMAIN flt.buckets_originais :
                LET nome == flt.buckets_originais[b].nome
                    esperadas == NaoEnviadas(flt.buckets_originais[b].tarefas)
                    entradas == Entradas(flt'.buckets_filtrados, nome)
                IN IF esperadas = <<>> THEN entradas = {}
                   ELSE /\ Cardinality(entradas) = 1
                        /\ \A e \in entradas :
                              flt'.buckets_filtrados[e].itens =
                                  [k \in DOMAIN esperadas |->
                                      <<esperadas[k],
                                        criar_chave_idempotencia(esperadas[k].id,
                                                                 flt.apelido, today)>>]
      ]_vars

C20_Witness ==
    /\ flt.op = "filtrar"
    /\ Len(flt.buckets_originais[1].tarefas) = 2
    /\ Len(flt.buckets_filtrados) = 2
    /\ flt.buckets_filtrados[1].nome = BucketNames[1]
    /\ Len(flt.buckets_filtrados[1].itens) = 1
    /\ flt.buckets_filtrados[2].nome = BucketNames[3]

\* the tasks the cycle has grouped under a responsible: the collected open
\* tasks that fall in a bucket and name the responsible
TotalDe(apelido) ==
    Cardinality({k \in DOMAIN tarefas :
        /\ tarefas[k].status \in STATUS_ABERTOS
        /\ classificar(tarefas[k], today, dias_proximos_padrao, ~RootEngine) # NONE
        /\ apelido \in Range(responsaveis[tarefas[k].id])})

\* the place of a bucket in the order vencidas, vence_hoje, vence_em_3_dias
BucketIndex(nome) == CHOOSE i \in DOMAIN BucketNames : BucketNames[i] = nome

\* C19: in a live cycle the tasks go to the senders responsible by
\* responsible, a responsible with more grouped tasks before one with fewer,
\* for at most limite_responsaveis_notificar responsibles, and the tasks of one
\* responsible bucket by bucket in the order vencidas, vence_hoje,
\* vence_em_3_dias.
C19_DispatchOrder ==
    execution_mode = "live" =>
        /\ \A i, j \in DOMAIN run.dispatched :
              (i < j /\ run.dispatched[i].apelido # run.dispatched[j].apelido) =>
                  /\ TotalDe(run.dispatched[i].apelido) >= TotalDe(run.dispatched[j].apelido)
                  /\ \A k \in j..Len(run.dispatched) :
                        run.dispatched[k].apelido # run.dispatched[i].apelido
        /\ Cardinality({run.dispatched[i].apelido : i \in DOMAIN run.dispatched})
              <= run.limite
        /\ \A i, j \in DOMAIN run.dispatched :
              (i < j /\ run.dispatched[i].apelido = run.dispatched[j].apelido) =>
                  BucketIndex(run.dispatched[i].nome) <= BucketIndex(run.dispatched[j].nome)

\* the responsible named second by the source has more tasks and goes first,
\* overdue task before the task of today
C19_Witness ==
    /\ execution_mode = "live"
    /\ run.result = "returned"
    /\ Len(run.dispatched) = 3
    /\ run.dispatched[1] = [apelido |-> <<"b">>, nome |-> "vencidas"]
    /\ run.dispatched[2] = [apelido |-> <<"b">>, nome |-> "vence_hoje"]
    /\ run.dispatched[3].apelido = <<"a">>
    /\ responsaveis[tarefas[1].id][1] = <<"a">>

\* two responsibles have tasks and the limit lets one of them through
C19_WitnessLimite ==
    /\ execution_mode = "live"
    /\ run.result = "returned"
    /\ run.limite = 1
    /\ TotalDe(<<"a">>) > 0
    /\ TotalDe(<<"b">>) > 0
    /\ {run.dispatched[i].apelido : i \in DOMAIN run.dispatched} = {<<"b">>}

\* the day a date bucket of the store stands for
BucketDay(x) == DayOf(x[1])

\* every key of the store, as one list
RECURSIVE KeyList(_, _)
KeyList(d, dates) ==
    IF dates = {} THEN <<>>
    ELSE LET x == CHOOSE y \in dates : TRUE IN d[x] \o KeyList(d, dates \ {x})

\* C21: a write to the store keeps, with all its keys, every date bucket dated
\* at most 7 days before today, the one dated exactly 7 days before included,
\* and leaves no bucket dated 8 or more days before today; the legacy purge of
\* the same keys draws the same line.
C21_PurgeBoundary ==
    [][ (storeObs'.op = "marcar"
           /\ \E i \in DOMAIN storeObs'.envios : storeObs'.envios[i][2]) =>
          /\ \A x \in DOMAIN data :
                BucketDay(x) >= today - RetentionDays =>
                    /\ x \in DOMAIN data'
                    /\ Range(data[x]) \subseteq Range(data'[x])
          /\ \A x \in DOMAIN data' : BucketDay(x) >= today - RetentionDays
          /\ file' = data'
          /\ LET entries == KeyList(data, DOMAIN data)
                 kept == purge_older_than(entries, today, RetentionDays)
             IN \A k \in Range(entries) :
                    k \in Range(kept) <=>
                        DayOf(split_first(k)[1]) >= today - RetentionDays
      ]_vars

\* a write on a day when the store holds a bucket dated exactly 7 days before
\* and drops one dated 8 days before
C21_Witness ==
    /\ storeObs.op = "marcar"
    /\ today = 8
    /\ <<strftime(1)>> \in DOMAIN data
    /\ <<strftime(0)>> \in storeObs.purged
    /\ <<strftime(0)>> \notin DOMAIN data

\* C22: persisting the store is atomic: whatever write was interrupted and
\* however two writers overlapped, a load returns a complete state that holds
\* every key a completed write had already put in the file.
C22_AtomicPersist ==
    persist.op = "load" => persist.persisted \subseteq KeysIn(persist.seen)

\* the lists of tasks a responsible can have on the day of the cycle
PendingLists ==
    UNION {[1..n -> {Tarefa(t, "A", today) : t \in TaskIds}] : n \in 0..MaxTasks}

\* C23: when the state file is missing, unreadable or no JSON document, the
\* load does not raise: the process goes on with a store that reports no key
\* as sent, so that the filter of the cycle lets every task through.
C23_BadFileLoadsEmpty ==
    [][ (persist'.op \in {"load", "load_raised"} /\ persist.kind # "valid") =>
          LET w == persist'.who IN
          /\ persist'.op = "load"
          /\ persist'.pc[w] = "idle"
          /\ \A k \in AllKeys : ~get_sent_today(persist'.mem[w], k)
          /\ \A ts \in PendingLists, a \in Aliases :
                Len(aplicar_filtro_idempotencia(ts, a, today, persist'.mem[w])) = Len(ts)
      ]_vars

C23_Witness ==
    /\ persist.op = "load"
    /\ persist.kind = "invalid"
    /\ persist.pc[persist.who] = "idle"
    /\ persist.persisted # {}
    /\ persist.mem[persist.who] = <<>>

\* C24: with a refill rate of 0 and burst capacity B, the first B calls of
\* can_proceed return true and every later call returns false, whatever the
\* clock does between the calls.
C24_RateZeroGrantsBurst ==
    limiter.config.requests_per_second = 0 =>
        /\ lim.granted = Min(lim.calls, limiter.config.burst_capacity)
        /\ lim.op = "proceed" => (lim.ret <=> lim.calls <= limiter.config.burst_capacity)

C24_Witness ==
    /\ limiter.config.requests_per_second = 0
    /\ limiter.config.burst_capacity = 2
    /\ lim.op = "proceed"
    /\ lim.calls = 4
    /\ lim.granted = 2
    /\ ~lim.ret
    /\ now = MaxTime

\* C25: the token count of a limiter always stays between 0 and the burst
\* capacity.
C25_TokensWithinBounds ==
    limiter.tokens >= 0 /\ limiter.tokens <= limiter.config.burst_capacity

\* C26: a get of a key that is in the cache returns its value when at most
\* the time-to-live of its set has elapsed since the set, and a miss when
\* more has elapsed, the entry being removed.
C26_TtlHonoured ==
    [][ \A t \in Threads :
          (cache.pc[t] = "get" /\ cache'.pc[t] = "idle") =>
            LET key == generate_key(cache.arg[t].key)
                i == Position(cache.entries, key)
            IN i # 0 =>
                 LET e == cache.entries[i]
                     fresh == now - e.created_at <= cache.asked[key]
                 IN /\ fresh => cache'.last.ret = e.value
                    /\ ~fresh => /\ cache'.last.ret = NONE
                                 /\ Position(cache'.entries, key) = 0
      ]_vars

\* C27: when the cache holds max_size entries, none of them expired, the set
\* of a key it does not hold evicts exactly one entry, and no entry that
\* stays was accessed (by get or set) before the evicted one.
C27_EvictsLeastRecent ==
    [][ \A t \in Threads :
          ( /\ cache.pc[t] = "set" /\ cache'.pc[t] = "store"
            /\ Len(cache.entries) = cache.max_size
            /\ \A i \in DOMAIN cache.entries : ~is_expired(cache.entries[i], now)
            /\ Position(cache.entries, generate_key(cache.arg[t].key)) = 0 ) =>
          \E i \in DOMAIN cache.entries :
              /\ cache'.entries = Without(cache.entries, i)
              /\ cache'.last.ret = cache.entries[i].key
              /\ \A j \in DOMAIN cache.entries :
                    cache.entries[i].last_accessed <= cache.entries[j].last_accessed
      ]_vars

C27_Witness ==
    /\ cache.max_size = 2
    /\ cache.last.op = "sweep"
    /\ cache.last.ret = "a"
    /\ Len(cache.entries) = 1
    /\ cache.entries[1].key = "b"
    /\ cache.entries[1].last_accessed > 0
    /\ ~is_expired(cache.entries[1], now)

\* the threads inside get, set or invalidate
Inside == {t \in Threads : cache.pc[t] \notin {"idle", "wait"}}

\* C28: however the calls of the threads interleave, at most one thread at a
\* time is inside get, set or invalidate, the one that holds the lock, so
\* each call runs from start to end on its own; and the cache never holds
\* more than max_size entries.
C28_CallsAreAtomic ==
    /\ Cardinality(Inside) <= 1
    /\ \A t \in Threads : t \in Inside <=> cache.lock = t
    /\ Len(cache.entries) <= cache.max_size
    /\ \A i, j \in DOMAIN cache.entries : cache.entries[i].key = cache.entries[j].key => i = j

C28_Witness ==
    /\ cache.pc["t1"] = "store"
    /\ cache.pc["t2"] = "wait"
    /\ cache.arg["t2"].op = "set"
    /\ cache.max_size = 1
    /\ cache.entries = <<>>
    /\ cache.last.ret = "b"

\* C29: at any moment at most max_concurrent card sends of the cycle are in
\* flight.
C29_BoundedParallelism == fan.sending <= max_concurrent

RECURSIVE Pow(_, _)
Pow(b, n) == IF n = 0 THEN 1 ELSE b * Pow(b, n - 1)

\* C30: the wrapped function is called at most max_attempts times; the
\* wrapper returns the value of the first call that succeeds and calls no
\* more; the k-th retry comes after a sleep of delay * backoff_factor^(k-1);
\* and when the last attempt fails, its exception is the one raised.
C30_RetryIsBounded ==
    LET calls == Len(retry.outs) IN
    /\ calls <= retry.max_attempts
    /\ \A i \in 1..(calls - 1) : retry.outs[i] = "error"
    /\ Len(retry.waits) = (IF retry.pc = "loop" THEN calls ELSE calls - 1)
    /\ \A k \in DOMAIN retry.waits :
          retry.waits[k] = retry.delay * Pow(retry.backoff_factor, k - 1)
    /\ retry.pc = "returned" <=> (calls > 0 /\ retry.outs[calls] = "ok")
    /\ retry.pc = "returned" => retry.result = calls /\ retry.raised = 0
    /\ retry.pc = "raised" => /\ retry.raised = calls /\ retry.result = 0
                              /\ retry.outs[calls] = "other" \/ calls = retry.max_attempts
    /\ retry.pc = "loop" => calls < retry.max_attempts

C30_Witness ==
    /\ retry.max_attempts = 3
    /\ retry.delay = 2
    /\ retry.backoff_factor = 2
    /\ retry.outs = <<"error", "error", "error">>
    /\ retry.waits = <<2, 4>>
    /\ retry.pc = "raised"
    /\ retry.raised = 3

\* C31: a function wrapped by resilient(service) is run only when the
\* resilience check of the call passed; when it returns, the wrapper returns
\* its value and exactly one success is reported to the breaker of that
\* service; when it raises, exactly one failure is reported to that breaker
\* and the wrapper raises the same exception. Nothing is reported to the
\* breaker of another service.
C31_ResilientWrapper ==
    [][wrap'.calls = wrap.calls + 1 =>
        LET c == wrap'.last
            sv == c.service
        IN
        /\ wrap'.invoked = wrap.invoked + (IF c.outcome = "none" THEN 0 ELSE 1)
        /\ c.outcome # "none" => c.admitted
        /\ \A o \in Services \ {sv} :
               /\ wrap'.circuit_breakers[o] = wrap.circuit_breakers[o]
               /\ wrap'.successes[o] = wrap.successes[o]
               /\ wrap'.failures[o] = wrap.failures[o]
        /\ c.outcome = "return" =>
               /\ c.result = "return" /\ c.passed = c.what
               /\ wrap'.successes[sv] = wrap.successes[sv] + 1
               /\ wrap'.failures[sv] = wrap.failures[sv]
        /\ c.outcome = "raise" =>
               /\ c.result = "raise" /\ c.passed = c.what
               /\ wrap'.failures[sv] = wrap.failures[sv] + 1
               /\ wrap'.successes[sv] = wrap.successes[sv]
        /\ c.outcome = "none" =>
               /\ wrap'.successes = wrap.successes
               /\ wrap'.failures = wrap.failures
    ]_vars

\* a service whose function raised, was then refused, and later returned
C31_Witness ==
    /\ wrap.calls = 3
    /\ wrap.invoked = 2
    /\ wrap.last.outcome = "return"
    /\ wrap.failures[wrap.last.service] = 1
    /\ wrap.successes[wrap.last.service] = 1

\* C32: once mark_sent_today(K) has returned for a key K of today, a new store
\* instance constructed from the same file reports get_sent_today(K) as true,
\* whatever JSON document the file held when the marking process loaded it,
\* one with a sent_today map and no metadata section included.
C32_MarkedKeySurvivesReload ==
    (persist.op = "load" /\ persist.who = "w2") =>
        \A K \in persist.returned["w1"] : get_sent_today(persist.mem["w2"], K)

\* C33: in a Live cycle a (recipient, task) pair whose dispatch failed keeps
\* its key unmarked, and the next Live cycle of the day that selects the
\* recipient hands the pair to a sender again.
\* the keys an invocation handed to a sender whose send ended undelivered
Failed(i) ==
    {k \in Range(hist.attempts[i]) :
        k \notin hist.deliveredBy[i] /\ <<i, k>> \notin hist.scheduled}

\* the responsible in "date|responsible|task"
RecipientOf(k) == <<k[3]>>

C33_FailedDispatchRetried ==
    execution_mode = "live" =>
        /\ \A i \in Invocations : \A k \in Failed(i) \ Delivered : k \notin KeysIn(data)
        /\ (entry = "notify_once" /\ inv["run2"].pc = "done") =>
              \A k \in Failed("run1") :
                 (\E j \in DOMAIN inv["run2"].msgs :
                       inv["run2"].msgs[j].apelido = RecipientOf(k))
                    => k \in Range(hist.attempts["run2"])

\* C34: the cap limite_responsaveis_notificar cuts the ranking computed before
\* the idempotency filter: with the tasks and their responsibles unchanged, a
\* responsible ranked beyond the cap is neither selected nor dispatched in any
\* cycle of the day, whatever the store already holds, also when every
\* responsible ranked above has been notified of everything.
Ranking ==
    LET standard == ~RootEngine
        abertas == SelectSeq(tarefas, LAMBDA t : t.status \in STATUS_ABERTOS)
        normais == IF standard THEN separar_normais(abertas, today) ELSE abertas
        rel == relevantes(normais, today, dias_proximos_padrao, standard)
        grupos == agrupar_por_responsavel(rel, responsaveis, max_responsaveis_lookup, 0, <<>>)
    IN responsaveis_ordenados(grupos, today, dias_proximos_padrao, standard, Len(grupos))

BeyondCap == {Ranking[j].apelido : j \in {x \in DOMAIN Ranking : x > run.limite}}

C34_CapBeforeFilter ==
    /\ \A j \in DOMAIN run.selected : run.selected[j].apelido \notin BeyondCap
    /\ \A j \in DOMAIN run.dispatched : run.dispatched[j].apelido \notin BeyondCap

\* a second cycle that selects nobody: the responsible within the cap has been
\* notified of everything, the one beyond the cap of nothing
C34_Witness ==
    /\ run.calls = 2
    /\ run.result = "returned"
    /\ run.selected = <<>>
    /\ BeyondCap # {}
    /\ \A a \in BeyondCap, k \in KeysIn(data) : RecipientOf(k) # a
    /\ KeysIn(data) # {}

\* C35: in every reachable state of a circuit breaker whose failure_threshold
\* is at least 1, a CLOSED breaker has failure_count below failure_threshold,
\* an OPEN or HALF_OPEN breaker has failure_count at or above it, and
\* failure_count is never negative.
C35_CountMatchesState ==
    /\ breaker.failure_count >= 0
    /\ breaker.state = CLOSED => breaker.failure_count < config.failure_threshold
    /\ breaker.state \in {OPEN, HALF_OPEN} =>
           breaker.failure_count >= config.failure_threshold

\* a breaker that tripped, recovered, and is closed again one failure short of
\* the threshold
C35_Witness ==
    /\ obs.trippedAt # NoTime
    /\ breaker.state = CLOSED
    /\ breaker.failure_count > 0
    /\ breaker.failure_count = config.failure_threshold - 1

\* C36: reading the statistics (get_stats of a breaker or of the resilience
\* manager, as the resilience metrics endpoint does) leaves the state, the
\* counters and last_failure_time of the breaker as they were.
C36_StatsAreReadOnly ==
    [][obs'.op = "get_stats" => breaker' = breaker]_vars

\* C37: the set of a key the cache already holds (an update) removes no other
\* entry that has not expired, also when the cache holds max_size entries.
C37_UpdateEvictsNothing ==
    [][ \A t \in Threads :
          ( /\ cache.pc[t] = "set" /\ cache'.pc[t] = "store"
            /\ Position(cache.entries, generate_key(cache.arg[t].key)) # 0 ) =>
          \A i \in DOMAIN cache.entries :
              ( /\ cache.entries[i].key # generate_key(cache.arg[t].key)
                /\ ~is_expired(cache.entries[i], now) ) =>
              Position(cache'.entries, cache.entries[i].key) # 0
      ]_vars

\* C38: a full-scan collection ends; it requests the pages 0, 1, 2, ... in
\* order, none after the first page marked as last, and no more than max_pages
\* pages when max_pages is set.
ScanInOrder ==
    /\ \A i \in DOMAIN scan.requested : scan.requested[i] = i - 1
    /\ scan.last_at # NoLast =>
           \A i \in DOMAIN scan.requested : scan.requested[i] <= scan.last_at
    /\ scan.max_pages # NoMax => Len(scan.requested) <= scan.max_pages
    /\ scan.pc = "done" => scan.requested # <<>>

C38_FullScanTerminates ==
    scan.usar_full_scan => ([]ScanInOrder /\ <>(scan.pc # "loop"))

\* C39: at most one run at a time is inside a section protected by a FileLock
\* on the same path; a run that finds the lock file keeps polling, and raises
\* without entering the section once its timeout has passed.
InsideLock == {r \in Runs : flock.pc[r] = "inside"}

C39_LockExcludes ==
    [][ /\ Cardinality({r \in Runs : flock'.pc[r] = "inside"}) <= 1
        /\ \A r \in Runs :
              /\ (flock.pc[r] = "polling" /\ flock'.pc[r] = "inside") =>
                     (InsideLock = {} /\ ~flock.file /\ flock'.file)
              /\ (flock.pc[r] = "polling" /\ flock.file) =>
                     flock'.pc[r] \in {"polling", "timeout"}
              /\ (flock.pc[r] = "polling" /\ flock'.pc[r] = "timeout") =>
                     (flock.file /\ now - flock.start[r] > flock.timeout)
              /\ flock.pc[r] = "timeout" => flock'.pc[r] = "timeout"
      ]_vars

\* a run gave up on its timeout while the other was inside the section
C39_Witness ==
    /\ flock.pc["r1"] = "inside"
    /\ flock.pc["r2"] = "timeout"
    /\ flock.timeout >= 1

\* C40: once a run that held the lock has ended, by returning, by an
\* exception or by being killed inside the section, a run that then tries to
\* acquire the same lock acquires it in the end.
C40_LaterRunAcquires ==
    \A r \in Runs :
        (flock.pc[r] = "polling" /\ flock.after[r] # {}) ~> (flock.pc[r] = "inside")

====
